---------------------------- MODULE Spec2Model ----------------------------
(***************************************************************************)
(* A model of linelogic's temporal decision pipeline: the Elo rating       *)
(* engine (models/elo.py), the walk-forward feature pipeline               *)
(* (features/engineer.py), fractional-Kelly staking (portfolio/bankroll.py)*)
(* and the recommendation / settlement ledger (app/recommend.py,           *)
(* app/settle.py).                                                         *)
(*                                                                         *)
(* Numbers.  Python floats are modelled in fixed point:                    *)
(*   - probabilities and Elo expectations in per-mille (PM = 1000 is 1.0), *)
(*   - Elo ratings in whole rating points,                                 *)
(*   - market probabilities, edges and Kelly fractions in basis points     *)
(*     (BP = 10000 is 1.0), dollars in cents.                              *)
(* Every product or quotient is rounded to nearest, symmetrically about    *)
(* zero (RoundDiv), where Python rounds to the nearest double.  IEEE       *)
(* rounding error (1e-16 relative) is below the resolution of the model.   *)
(*                                                                         *)
(* A Python None is the empty tuple <<>>, a present value v is <<v>>.      *)
(***************************************************************************)
EXTENDS Integers, Sequences, FiniteSets, TLC

\* ------------------------------------------------------------------ bounds
\* calls made on one EloRating instance
MaxCalls == 2

\* ------------------------------------------------------------- input sets
Teams == {"A", "B", "C"}

None == <<>>
Some(v) == <<v>>
IsNone(x) == x = <<>>
Val(x) == x[1]

\* score pairs (home_score, away_score) handed to update_ratings: a home
\* win, an away win, a tie, a negative score, a missing score
EloScorePairs ==
    { <<Some(3), Some(1)>>, <<Some(1), Some(4)>>, <<Some(2), Some(2)>>,
      <<Some(-1), Some(2)>>, <<None, Some(1)>> }

\* ------------------------------------------------------------- arithmetic
PM == 1000

Abs(x) == IF x < 0 THEN -x ELSE x
Min(x, y) == IF x < y THEN x ELSE y
Max(x, y) == IF x > y THEN x ELSE y

\* n / d rounded to nearest, ties away from zero; RoundDiv(-n, d) = -RoundDiv(n, d)
RoundDiv(n, d) ==
    IF n >= 0 THEN (n + d \div 2) \div d
    ELSE -(((-n) + d \div 2) \div d)

\* 1000 * ln(n), n = 1..10
LnTable == <<0, 693, 1099, 1386, 1609, 1792, 1946, 2079, 2197, 2303>>

RECURSIVE LnMilli(_)
\* math.log(n) in per-mille; beyond the table ln(n) ~ ln(10) + ln(n / 10)
LnMilli(n) ==
    IF n <= 10 THEN LnTable[n] ELSE LnTable[10] + LnMilli(n \div 10)

\* 1000 / (1 + 10^(d / 400)) at d = 0, 100, ..., 1600
LogisticTable == <<500, 360, 240, 151, 91, 53, 31, 17, 10, 6, 3, 2, 1, 1, 0, 0, 0>>

\* 1 / (1 + 10 ** (d / 400)) in per-mille, for d >= 0: linear between the
\* table's points, and 0 beyond them. The per-mille value is 0 from a gap of
\* about 1400 points on; the double is below 1e-16, so that 1 minus it is
\* exactly 1.0, from a gap of about 6400 points on.
LogisticPos(d) ==
    IF d >= 1600 THEN LogisticTable[17]
    ELSE LET i == d \div 100
             lo == LogisticTable[i + 1]
             hi == LogisticTable[i + 2]
         IN  lo - RoundDiv((lo - hi) * (d - 100 * i), 100)

\* ------------------------------------------------------------ EloRating
k_factor == 20
home_advantage == 100
initial_rating == 1500
\* margin_multiplier = 1.0, in per-mille
margin_multiplier == 1000

get_rating_map_zero(ratings, team) ==
    IF team \in DOMAIN ratings THEN ratings
    ELSE ratings @@ (team :> 0)

\* EloRating.get_rating on a rating map: the map after the call (an unseen
\* team is inserted at initial_rating)
get_rating_map(ratings, team) ==
    IF team \in DOMAIN ratings THEN ratings
    ELSE ratings @@ (team :> initial_rating)

\* the value get_rating returns
get_rating(ratings, team) == get_rating_map(ratings, team)[team]

\* probability (per-mille) that team A beats team B
expected_score(rating_a, rating_b) ==
    LET d == rating_b - rating_a
    IN  IF d >= 0 THEN LogisticPos(d) ELSE PM - LogisticPos(-d)

\* margin-of-victory multiplier, per-mille
margin_multiplier_factor(margin, winning_elo, losing_elo) ==
    IF margin <= 0 THEN PM
    ELSE LET margin_factor == RoundDiv(LnMilli(margin + 1) * margin_multiplier, PM)
             elo_diff == winning_elo - losing_elo
         IN  IF elo_diff > 0
             THEN RoundDiv(margin_factor * 2200, elo_diff + 2200)
             ELSE margin_factor

expected_away_swapped(expected_home) == expected_home

\* expected_away = 1 - expected_home
expected_away_of(expected_home) == PM - expected_home

rating_change_reversed(margin_mult, actual, expected) ==
    RoundDiv(k_factor * margin_mult * (expected - actual), PM * PM)

\* k_adjusted * (actual - expected), in rating points
rating_change(margin_mult, actual, expected) ==
    RoundDiv(k_factor * margin_mult * (actual - expected), PM * PM)

\* EloRating.update_ratings: the outcome of one call on rating map `ratings`:
\*   raised  - the call ended in an exception (TypeError on a None score)
\*   ratings - the rating map the call leaves behind
\*   ret     - the returned (new_home_rating, new_away_rating)
update_ratings(ratings, home_team, away_team, home_score, away_score) ==
    LET r1 == get_rating_map(ratings, home_team)
        r2 == get_rating_map(r1, away_team)
        home_rating == r2[home_team]
        away_rating == r2[away_team]
    IN  IF IsNone(home_score) \/ IsNone(away_score)
        THEN \* `home_score > away_score` raises after both get_rating calls
             [raised |-> TRUE, ratings |-> r2, ret |-> <<>>]
        ELSE
        LET hs == Val(home_score)
            as == Val(away_score)
            home_rating_adj == home_rating + home_advantage
            expected_home == expected_score(home_rating_adj, away_rating)
            expected_away == expected_away_of(expected_home)
            actual_home == IF hs > as THEN PM ELSE 0
            actual_away == PM - actual_home
            margin == Abs(hs - as)
            winning_elo == IF hs > as THEN home_rating ELSE away_rating
            losing_elo == IF hs > as THEN away_rating ELSE home_rating
            margin_mult == margin_multiplier_factor(margin, winning_elo, losing_elo)
            home_change == rating_change(margin_mult, actual_home, expected_home)
            away_change == rating_change(margin_mult, actual_away, expected_away)
            new_home_rating == home_rating + home_change
            new_away_rating == away_rating + away_change
            r3 == [r2 EXCEPT ![home_team] = new_home_rating]
            r4 == [r3 EXCEPT ![away_team] = new_away_rating]
        IN  [raised |-> FALSE, ratings |-> r4,
             ret |-> <<new_home_rating, new_away_rating>>]

\* ------------------------------------------------------------ staking
\* 1.0 in basis points: probabilities, edges, Kelly fractions, decimal odds
BP == 10000

marginal_haircut_above(kelly) ==
    IF kelly >= 500 THEN RoundDiv(kelly, 2) ELSE kelly

\* marginal edges (kelly < 0.05) are halved
marginal_haircut(kelly) ==
    IF kelly < 500 THEN RoundDiv(kelly, 2) ELSE kelly

\* kelly_fraction(prob_win, odds_decimal), all in basis points
kelly_fraction(prob_win, odds_decimal) ==
    IF prob_win <= 0 \/ prob_win >= BP THEN 0
    ELSE IF odds_decimal <= BP THEN 0
    ELSE LET b0 == odds_decimal - BP
             \* volatility haircut on plus-money prices: b *= 0.8
             b == IF odds_decimal > 2 * BP THEN RoundDiv(b0 * 8, 10) ELSE b0
             q == BP - prob_win
             kelly0 == RoundDiv(prob_win * b - q * BP, b)
             kelly == marginal_haircut(kelly0)
         IN  Max(kelly, 0)

\* the win probabilities and decimal odds kelly_fraction is called with
KellyProbs == { 250 * i : i \in 0..40 }
KellyOdds == {10100, 12500, 15000, 19091, 2 * BP, 20100, 25000, 3 * BP, 5 * BP, 10 * BP}

\* apply_per_bet_cap
apply_per_bet_cap(kelly_stake, cap) == Min(kelly_stake, cap)

\* ExposureCaps defaults, basis points of bankroll
max_per_bet == 500
max_per_day == 2000

\* calculate_stake_with_caps: kelly_fraction_value in hundredths (0.25 is 25),
\* bankroll and stake_dollars in cents, cap in basis points
calculate_stake_with_caps(prob_win, odds_decimal, bankroll, kelly_fraction_value, cap) ==
    LET full_kelly == kelly_fraction(prob_win, odds_decimal)
        frac_kelly == RoundDiv(full_kelly * kelly_fraction_value, 100)
        capped_fraction == apply_per_bet_cap(frac_kelly, cap)
        stake_dollars == RoundDiv(bankroll * capped_fraction, BP)
    IN  [full_kelly |-> full_kelly, fractional_kelly |-> frac_kelly,
         capped_fraction |-> capped_fraction, stake_dollars |-> stake_dollars]

\* inputs of calculate_stake_with_caps the staking specification draws from
StakeProbs == {-500, 0, 3000, 4800, 5200, 5500, 6000, 9000, BP, 12000}
StakeOdds == {5000, BP, 15000, 2 * BP, 25000, 3 * BP, 50000}
StakeBankrolls == {0, 100000, 500000}
StakeKellyFractions == {-25, 0, 25, 50, 100, 150}
StakeCaps == {0, max_per_bet, 1000}

\* ------------------------------------------------------------ odds
\* odds.math.american_to_implied_prob, basis points
american_to_implied_prob(american_odds) ==
    IF american_odds > 0 THEN RoundDiv(100 * BP, american_odds + 100)
    ELSE IF american_odds < 0 THEN RoundDiv((-american_odds) * BP, (-american_odds) + 100)
    ELSE 5000

\* ------------------------------------------------------------ recommend
\* stub_model_probability: 0.52
stub_model_probability == 5200

\* `if home_edge > 0.01`
min_edge == 100

\* bankroll=1000.0 (cents) and kelly_fraction_value=0.25 (hundredths)
rec_bankroll == 100000
rec_kelly_fraction == 25

\* the market quote of one side as recommend_date finds it in odds_map: None
\* (no entry: the stub 50/50 is used) or Some(american price)
implied_of(odds) ==
    IF IsNone(odds) THEN 5000 ELSE american_to_implied_prob(Val(odds))

\* decimal odds of a selection: (american / 100) + 1 for a positive price,
\* (100 / abs(american)) + 1 otherwise, 2.0 with no quote
decimal_of(odds) ==
    IF IsNone(odds) THEN 2 * BP
    ELSE IF Val(odds) > 0 THEN Val(odds) * 100 + BP
    ELSE RoundDiv(100 * BP, Abs(Val(odds))) + BP

fair_prob_halved(implied, total_implied) ==
    IF total_implied > 0 THEN RoundDiv(implied * BP, 2 * total_implied) ELSE 5000

\* vig removal as recommend_date does it inline
fair_prob(implied, total_implied) ==
    IF total_implied > 0 THEN RoundDiv(implied * BP, total_implied) ELSE 5000

edge_exceeds_at_least(edge) == edge >= min_edge

\* the test that promotes a selection to a stake calculation
edge_exceeds(edge) == edge > min_edge

\* one selection's recommendation (the dict `rec`)
make_rec(game_id, side, model_prob, implied, edge, odds) ==
    [game_id |-> game_id, selection |-> side, model_prob |-> model_prob,
     market_prob |-> implied, edge |-> edge,
     stake |-> calculate_stake_with_caps(model_prob, decimal_of(odds), rec_bankroll,
                                         rec_kelly_fraction, max_per_bet).stake_dollars]

\* recommendations_for_game: the loop body of recommend_date for one game
recommendations_for_game(game_id, home_odds, away_odds) ==
    LET home_implied == implied_of(home_odds)
        away_implied == implied_of(away_odds)
        total_implied == home_implied + away_implied
        home_fair == fair_prob(home_implied, total_implied)
        away_fair == fair_prob(away_implied, total_implied)
        model_home == stub_model_probability
        model_away == BP - model_home
        home_edge == model_home - home_fair
        away_edge == model_away - away_fair
        home_recs == IF edge_exceeds(home_edge)
                     THEN <<make_rec(game_id, "home", model_home, home_implied,
                                     home_edge, home_odds)>>
                     ELSE <<>>
        away_recs == IF edge_exceeds(away_edge)
                     THEN <<make_rec(game_id, "away", model_away, away_implied,
                                     away_edge, away_odds)>>
                     ELSE <<>>
    IN  home_recs \o away_recs

RECURSIVE slate_recs(_, _, _)
\* the recommendations of games[i..], in the order recommend_date emits them
slate_recs(date_str, games, i) ==
    IF i > Len(games) THEN <<>>
    ELSE recommendations_for_game(<<date_str, i>>, games[i][1], games[i][2])
         \o slate_recs(date_str, games, i + 1)

RECURSIVE SumStake(_)
SumStake(recs) ==
    IF recs = <<>> THEN 0 ELSE Head(recs).stake + SumStake(Tail(recs))

\* the row INSERTed into recommendations for `rec`
rec_row(rec, id, now) ==
    [id |-> id, created_at |-> now, game_id |-> rec.game_id,
     selection |-> rec.selection, model_prob |-> rec.model_prob,
     market_prob |-> rec.market_prob, edge |-> rec.edge,
     stake_suggested |-> rec.stake]

\* the row INSERTed into results for recommendation rec_id
result_row(rec_id, now) ==
    [recommendation_id |-> rec_id, settled_at |-> now, outcome_win_bool |-> 0,
     profit_loss |-> 0]

\* (home quote, away quote) of a game: no quotes (stub 50/50), a home underdog,
\* a pair whose home edge is 1% to the basis point (0.996%), an away underdog
GameOdds ==
    { <<None, None>>, <<Some(200), Some(-250)>>, <<Some(-400), Some(-332)>>,
      <<Some(-250), Some(200)>> }

\* quotes of the games in the ledger specification: a game that is recommended
\* (no quotes) and one that is not (near pick'em)
LedgerOdds == { <<None, None>>, <<Some(-120), Some(-110)>> }

\* calendar days: wall-clock dates and date_str arguments
Days == {1, 2}

\* games on one date in the single-call specification
MaxGames == 5
\* games on one date, and rows of recommendations, in the ledger specification
MaxSlate == 2
MaxRows == 3

SeqsUpTo(S, n) == UNION { [1..k -> S] : k \in 0..n }

\* a call of a pure function that returned v, and one that raised an error
Returned(v) == [raised |-> FALSE, value |-> v]
Raised == [raised |-> TRUE, value |-> None]

\* the hyperparameters save_ratings writes next to the ratings
DefaultConfig ==
    [k_factor |-> k_factor, home_advantage |-> home_advantage,
     initial_rating |-> initial_rating]

\* the hyperparameters a later EloRating(...) is built with
EloConfigs ==
    { DefaultConfig,
      [DefaultConfig EXCEPT !.k_factor = 32],
      [DefaultConfig EXCEPT !.home_advantage = 65],
      [DefaultConfig EXCEPT !.initial_rating = 1000] }

\* ratings checkpoints left on disk by an earlier session: a close pair, and a
\* pair further apart than any expected score can tell
StoredCheckpoints ==
    { [ratings |-> ("A" :> 1600 @@ "B" :> 1420),
       k_factor |-> k_factor, home_advantage |-> home_advantage,
       initial_rating |-> initial_rating],
      [ratings |-> ("A" :> 9000 @@ "B" :> 1480),
       k_factor |-> k_factor, home_advantage |-> home_advantage,
       initial_rating |-> initial_rating] }

\* final scores with a winner
DecisiveScores == { <<Some(3), Some(1)>>, <<Some(1), Some(4)>> }

\* no pure function called yet
NoFnCall == [fn |-> "none", args |-> <<>>]

\* ------------------------------------------------------- odds mathematics
\* In this section a probability or a decimal price is the exact fraction
\* <<numerator, denominator>> with a positive denominator, so that a
\* conversion and its inverse are computed, not assumed.
MaxAmerican == 400

\* valid American odds: |o| >= 100, both signs, with some long prices
AmericanOdds ==
    ((-MaxAmerican)..(-100)) \cup (100..MaxAmerican)
        \cup {-100000, -10000, -1500, 1500, 10000, 100000}

\* int(round(n / d)) for n >= 0, d > 0: Python rounds a half to the even integer
RoundHalfEven(n, d) ==
    LET q == n \div d
        r == n % d
    IN  IF 2 * r < d THEN q
        ELSE IF 2 * r > d THEN q + 1
        ELSE q + (q % 2)

\* odds.math.american_to_implied_prob, as an exact fraction
american_to_implied_prob_exact(american_odds) ==
    IF american_odds > 0 THEN <<100, american_odds + 100>>
    ELSE IF american_odds < 0 THEN <<-american_odds, (-american_odds) + 100>>
    ELSE <<1, 2>>

\* odds.math.implied_prob_to_american
implied_prob_to_american(prob) ==
    IF prob[1] <= 0 \/ prob[1] >= prob[2] THEN Raised
    ELSE IF 2 * prob[1] = prob[2] THEN Returned(100)
    ELSE IF 2 * prob[1] < prob[2]
         THEN Returned(RoundHalfEven(100 * prob[2] - 100 * prob[1], prob[1]))
         ELSE Returned(-RoundHalfEven(100 * prob[1], prob[2] - prob[1]))

decimal_to_implied_prob_net(decimal_odds) ==
    IF decimal_odds[1] <= decimal_odds[2] THEN Raised
    ELSE Returned(<<decimal_odds[2], decimal_odds[1] - decimal_odds[2]>>)

\* odds.math.decimal_to_implied_prob
decimal_to_implied_prob(decimal_odds) ==
    IF decimal_odds[1] <= decimal_odds[2] THEN Raised
    ELSE Returned(<<decimal_odds[2], decimal_odds[1]>>)

\* odds.math.implied_prob_to_decimal
implied_prob_to_decimal(prob) ==
    IF prob[1] <= 0 \/ prob[1] >= prob[2] THEN Raised
    ELSE Returned(<<prob[2], prob[1]>>)

\* odds.math.american_to_decimal
american_to_decimal(american_odds) ==
    implied_prob_to_decimal(american_to_implied_prob_exact(american_odds))

\* odds.math.decimal_to_american
decimal_to_american(decimal_odds) ==
    LET prob == decimal_to_implied_prob(decimal_odds)
    IN  IF prob.raised THEN Raised ELSE implied_prob_to_american(prob.value)

\* arithmetic on exact fractions
QNorm(q) == IF q[2] < 0 THEN <<-q[1], -q[2]>> ELSE q
QAdd(a, b) == <<a[1] * b[2] + b[1] * a[2], a[2] * b[2]>>
QSub(a, b) == <<a[1] * b[2] - b[1] * a[2], a[2] * b[2]>>
QMul(a, b) == <<a[1] * b[1], a[2] * b[2]>>
QDiv(a, b) == QNorm(<<a[1] * b[2], a[2] * b[1]>>)
QEq(a, b) == a[1] * b[2] = b[1] * a[2]
QLess(a, b) == a[1] * b[2] < b[1] * a[2]
QInt(n) == <<n, 1>>

\* the probabilities the functions are called with, in twentieths: below 0,
\* 0, inside (0,1), 1 and above 1
OddsProbs == { <<n, 20>> : n \in {-6, -4, 0, 6, 8, 10, 11, 12, 20, 24, 30} }

\* payout and stake of expected_value, dollars
EvAmounts == {100, 150}

remove_vig_first_leg(prob_a, prob_b) ==
    LET total == QAdd(prob_a, prob_b)
    IN  IF total[1] = 0 THEN Raised
        ELSE Returned(<<QDiv(prob_a, total), prob_b>>)

\* odds.math.remove_vig_two_way
remove_vig_two_way(prob_a, prob_b) ==
    LET total == QAdd(prob_a, prob_b)
    IN  IF total[1] = 0 THEN Raised
        ELSE Returned(<<QDiv(prob_a, total), QDiv(prob_b, total)>>)

\* odds.math.expected_value
expected_value(prob_win, payout, stake) ==
    LET prob_loss == QSub(QInt(1), prob_win)
    IN  Returned(QSub(QMul(prob_win, QInt(payout)), QMul(prob_loss, QInt(stake))))

\* odds.math.edge
edge(prob_model, prob_market_fair) == Returned(QSub(prob_model, prob_market_fair))

\* ------------------------------------------------------------------ Cache
\* the keys _make_key gives the requests made, and the JSON documents stored
CacheKeys == {"k1", "k2"}
CacheValues == {"v1", "v2"}

\* Cache.default_ttl, seconds
default_ttl == 86400

\* the ttl argument of set: None (the default), or seconds
CacheTtls == {None, Some(0), Some(2)}

\* the last second the clock reaches
MaxClock == 3

\* json.dumps of a JSON document and json.loads of the stored text
json_dumps(value) == <<"json", value>>
json_loads(value_str) == value_str[2]

\* the table without the row of `key`
cache_without(rows, key) == [k \in (DOMAIN rows) \ {key} |-> rows[k]]

\* Cache.set: INSERT OR REPLACE
cache_set(rows, key, value, ttl, now) ==
    LET row == [value |-> json_dumps(value), fetched_at |-> now,
                ttl_seconds |-> IF IsNone(ttl) THEN default_ttl ELSE Val(ttl)]
    IN  [k \in (DOMAIN rows) \cup {key} |-> IF k = key THEN row ELSE rows[k]]

cache_get_at_expiry(rows, key, now) ==
    IF key \notin DOMAIN rows THEN [rows |-> rows, ret |-> None]
    ELSE IF now - rows[key].fetched_at >= rows[key].ttl_seconds
         THEN [rows |-> cache_without(rows, key), ret |-> None]
         ELSE [rows |-> rows, ret |-> Some(json_loads(rows[key].value))]

\* Cache.get: the table it leaves and the value it returns
cache_get(rows, key, now) ==
    IF key \notin DOMAIN rows THEN [rows |-> rows, ret |-> None]
    ELSE IF now - rows[key].fetched_at > rows[key].ttl_seconds
         THEN [rows |-> cache_without(rows, key), ret |-> None]
         ELSE [rows |-> rows, ret |-> Some(json_loads(rows[key].value))]

\* Cache.cleanup_expired: DELETE ... WHERE fetched_at + ttl_seconds < now
cleanup_expired(rows, now) ==
    LET expired == { k \in DOMAIN rows : rows[k].fetched_at + rows[k].ttl_seconds < now }
    IN  [rows |-> [k \in (DOMAIN rows) \ expired |-> rows[k]],
         deleted |-> Cardinality(expired)]

NoCacheCall ==
    [op |-> "none", key |-> "", now |-> 0, ret |-> None, deleted |-> 0, pre |-> <<>>]

\* ------------------------------------------------------------ RateLimiter
\* tokens are counted in sixtieths of a token, so that the refill of one
\* second, requests_per_minute / 60 tokens, is a whole number
Token == 60

\* requests_per_minute of the limiters built
LimiterRates == {0, 30, 60, 90, 120}

\* acquire calls made on one limiter
MaxAcquires == 4

\* RateLimiter.__init__ at time `now`
NewLimiter(requests_per_minute, now) ==
    [requests_per_minute |-> requests_per_minute,
     tokens |-> Max(Token, requests_per_minute),
     max_tokens |-> Max(Token, requests_per_minute),
     minute_tokens |-> Token * requests_per_minute,
     last_update |-> now]

refill_tokens_uncapped(l, now) ==
    LET elapsed == now - l.last_update
    IN  [l EXCEPT !.tokens = l.tokens + elapsed * l.requests_per_minute,
                  !.minute_tokens = Min(Token * l.requests_per_minute,
                                        l.minute_tokens + elapsed * l.requests_per_minute),
                  !.last_update = now]

\* RateLimiter._refill_tokens
refill_tokens(l, now) ==
    LET elapsed == now - l.last_update
    IN  [l EXCEPT !.tokens = Min(l.max_tokens,
                                 l.tokens + elapsed * l.requests_per_minute),
                  !.minute_tokens = Min(Token * l.requests_per_minute,
                                        l.minute_tokens + elapsed * l.requests_per_minute),
                  !.last_update = now]

\* `self.tokens >= 1 and self.minute_tokens >= 1`
token_available(l) == l.tokens >= Token /\ l.minute_tokens >= Token

\* `self.tokens -= 1; self.minute_tokens -= 1`
take_token(l) ==
    [l EXCEPT !.tokens = l.tokens - Token, !.minute_tokens = l.minute_tokens - Token]

\* RateLimiter.acquire(blocking=False) at time `now`
acquire_nonblocking(l, now) ==
    LET l1 == refill_tokens(l, now)
    IN  IF token_available(l1) THEN [limiter |-> take_token(l1), ret |-> TRUE]
        ELSE [limiter |-> IF l1.minute_tokens > 0
                          THEN [l1 EXCEPT !.minute_tokens = Max(0, l1.minute_tokens - Token)]
                          ELSE l1,
              ret |-> FALSE]

\* the seconds acquire(blocking=True) asks time.sleep for, rounded up to the
\* clock's resolution
wait_time(l) ==
    LET tokens_needed == Max(Token - l.tokens, Token - l.minute_tokens)
    IN  (tokens_needed + l.requests_per_minute - 1) \div l.requests_per_minute

\* self.max_retries and self.backoff_seconds of BalldontlieProvider
max_retries == 2
backoff_seconds == 1

\* RateLimiter.acquire(blocking=True) at time `now`: the limiter it leaves, its
\* result and the time at which it returns. With no token available it sleeps
\* for wait_time, or `oversleep` seconds longer, and tries once more; with
\* requests_per_minute = 0 the division for wait_time raises ZeroDivisionError
acquire_blocking(l, now, oversleep) ==
    LET l1 == refill_tokens(l, now)
    IN  IF token_available(l1)
        THEN [limiter |-> take_token(l1), ret |-> TRUE, raised |-> FALSE, now |-> now]
        ELSE IF l1.requests_per_minute = 0
        THEN [limiter |-> l1, ret |-> FALSE, raised |-> TRUE, now |-> now]
        ELSE LET woke == now + wait_time(l1) + oversleep
                 l2 == refill_tokens(l1, woke)
             IN  IF token_available(l2)
                 THEN [limiter |-> take_token(l2), ret |-> TRUE, raised |-> FALSE,
                       now |-> woke]
                 ELSE [limiter |-> l2, ret |-> FALSE, raised |-> FALSE, now |-> woke]

\* RateLimiter.reset at time `now`
reset(l, now) ==
    [l EXCEPT !.tokens = l.max_tokens,
              !.minute_tokens = Token * l.requests_per_minute,
              !.last_update = now]

NoLimiterCall == [op |-> "none", now |-> 0, ret |-> FALSE, raised |-> FALSE]

\* no acquire made yet on a limiter built or reset at time `now`:
\*   grants   - the times of the acquire calls that returned True
\*   calls    - the acquire calls made
\*   epoch    - the number of grants before the last reset (or construction)
\*   epoch_at - the time of that reset
\*   attempts - the acquire calls made since
\*   blocking - those of them made with blocking=True
NewLimiterLog(now) ==
    [grants |-> <<>>, calls |-> 0, epoch |-> 0, epoch_at |-> now, attempts |-> 0,
     blocking |-> 0]

\* ------------------------------------------------------ FeatureEngineer
\* days on which games are played
FeatDates == {1, 3}

\* a GameRecord (a row of games_df); home_win is the label column the loader
\* sets to 1 if home_score > away_score else 0, None for an unplayed fixture
GameRow(date, home_team, away_team, home_score, away_score) ==
    [date |-> date, home_team |-> home_team, away_team |-> away_team,
     home_score |-> home_score, away_score |-> away_score,
     home_win |-> IF IsNone(home_score) \/ IsNone(away_score) THEN None
                  ELSE IF Val(home_score) > Val(away_score) THEN Some(1)
                  ELSE Some(0)]

FeatMatchups == { <<"A", "B">>, <<"B", "A">>, <<"A", "C">> }

\* final scores of a batch record: a home win, an away win, a zero-score record
FeatScores == { <<3, 1>>, <<1, 3>>, <<0, 0>> }

\* the rows a training batch is drawn from
FeatGames ==
    { GameRow(d, m[1], m[2], Some(sc[1]), Some(sc[2])) :
        d \in FeatDates, m \in FeatMatchups, sc \in FeatScores }

\* the rows of unplayed fixtures scored at inference (infer_daily.py:333-346)
InferGames ==
    { GameRow(d, m[1], m[2], None, None) : d \in FeatDates, m \in FeatMatchups }

\* rows of one games_df handed to engineer_features
MaxBatch == 2

\* days of a longer calendar: consecutive days, a short break, a long break
HistoryDates == {1, 2, 4, 12}

\* completed games and unplayed fixtures on that calendar
HistoryGames ==
    { GameRow(d, m[1], m[2], Some(sc[1]), Some(sc[2])) :
        d \in HistoryDates, m \in FeatMatchups, sc \in { <<3, 1>>, <<1, 3>> } }

HistoryFixtures ==
    { GameRow(d, m[1], m[2], None, None) : d \in HistoryDates, m \in FeatMatchups }

\* state updates applied one by one
MaxUpdates == 2

\* FeatureEngineer.lineup_lookup: (date, team) -> starters; no entry for a key
\* is the empty set
lineup_lookup(date, team) ==
    IF date = 1 /\ team = "A" THEN {"a1", "a2", "a3", "a4", "a5"}
    ELSE IF date = 3 /\ team = "A" THEN {"a1", "a2", "a3", "a4", "a6"}
    ELSE IF date = 4 /\ team = "A" THEN {"a1", "a2", "a3", "a7", "a8"}
    ELSE IF date = 1 /\ team = "B" THEN {"b1", "b2", "b3", "b4", "b5"}
    ELSE {}

\* FeatureEngineer() with no side-table frames and no ratings file
NewEngineer ==
    [elo |-> <<>>,
     team_game_history |-> [t \in Teams |-> <<>>],
     prev_lineup |-> [t \in Teams |-> {}],
     advanced_lookup |-> <<>>,
     team_avgs_lookup |-> <<>>]

\* FeatureEngineer(advanced_metrics_df, team_avgs_df): the two frames as the
\* lookups keyed by (season, team) the constructor builds from them
FeatureEngineer(advanced_lookup, team_avgs_lookup) ==
    [NewEngineer EXCEPT !.advanced_lookup = advanced_lookup,
                        !.team_avgs_lookup = team_avgs_lookup]

\* dates are day numbers counted from 1 January of year 0, on a calendar of
\* 365-day years; the day of the year on which each month starts
MonthStarts == <<1, 32, 60, 91, 121, 152, 182, 213, 244, 274, 305, 335>>

\* d.year and d.month
year_of(d) == (d - 1) \div 365
month_of(d) ==
    LET day_of_year == ((d - 1) % 365) + 1
    IN  Cardinality({ m \in 1..12 : MonthStarts[m] <= day_of_year })

\* FeatureEngineer._season_from_date
season_from_date(d) ==
    IF month_of(d) >= 8 THEN year_of(d) ELSE year_of(d) - 1

\* days in July and August of year 0, August of year 1, September of year 2:
\* seasons -1, 0, 1 and 2
SeasonDates == {200, 230, 600, 1000}

\* the keys a side table may hold
SideKeys == {0, 1} \X {"A", "B"}

\* the row of a side table for a key; the values tell the rows apart
\* (hundredths for the metrics, per-mille for the rates)
SideCode(season, team) == 10 * (season + 1) + (IF team = "A" THEN 1 ELSE 2)
AdvancedRow(season, team) ==
    [PER |-> 1000 + SideCode(season, team),
     BPM |-> 2000 + SideCode(season, team),
     WS48 |-> 3000 + SideCode(season, team)]
TeamAvgsRow(season, team) ==
    [net_rating |-> 4000 + SideCode(season, team),
     pace |-> 5000 + SideCode(season, team),
     off_rating |-> 6000 + SideCode(season, team),
     def_rating |-> 7000 + SideCode(season, team),
     off_3pa_rate |-> 8000 + SideCode(season, team),
     def_opp_3pa_rate |-> 9000 + SideCode(season, team)]

AdvancedTables ==
    { [k \in keys |-> AdvancedRow(k[1], k[2])] : keys \in SUBSET SideKeys }
TeamAvgsTables ==
    { [k \in keys |-> TeamAvgsRow(k[1], k[2])] : keys \in SUBSET SideKeys }

\* {"PER": 0.0, "BPM": 0.0, "WS48": 0.0}
default_adv == [PER |-> 0, BPM |-> 0, WS48 |-> 0]

default_avgs ==
    [net_rating |-> 0, pace |-> 0, off_rating |-> 0, def_rating |-> 0,
     off_3pa_rate |-> 0, def_opp_3pa_rate |-> 0]

\* dict.get(key, default)
dict_get(table, key, default) ==
    IF key \in DOMAIN table THEN table[key] ELSE default

\* max(available_seasons)
max_season(table) ==
    LET available_seasons == { k[1] : k \in DOMAIN table }
    IN  CHOOSE m \in available_seasons : \A x \in available_seasons : x <= m

\* fallback_season of _extract_game_features: computed from team_avgs_lookup,
\* whichever table is then looked up
fallback_season_of(team_avgs_lookup, season) ==
    IF DOMAIN team_avgs_lookup # {}
    THEN IF season > max_season(team_avgs_lookup)
         THEN max_season(team_avgs_lookup) ELSE season
    ELSE season

\* table.get((season, team), table.get((fallback_season, team), default))
season_lookup(table, team_avgs_lookup, season, team, default) ==
    dict_get(table, <<season, team>>,
             dict_get(table,
                      <<fallback_season_of(team_avgs_lookup, season), team>>,
                      default))

\* history[-n_games:]
LastN(history, n_games) ==
    IF Len(history) <= n_games THEN history
    ELSE SubSeq(history, Len(history) - n_games + 1, Len(history))

RECURSIVE SumWins(_, _)
\* sum(1 for g in recent if g["win"]), from record i on
SumWins(recent, i) ==
    IF i > Len(recent) THEN 0
    ELSE (IF recent[i].win THEN 1 ELSE 0) + SumWins(recent, i + 1)

RECURSIVE SumDiffs(_, _)
\* sum of score - opp_score, from record i on
SumDiffs(recent, i) ==
    IF i > Len(recent) THEN 0
    ELSE (recent[i].score - recent[i].opp_score) + SumDiffs(recent, i + 1)

\* _get_win_rate, per-mille
get_win_rate(history, n_games) ==
    IF Len(history) = 0 THEN 500
    ELSE LET recent == LastN(history, n_games)
         IN  RoundDiv(SumWins(recent, 1) * PM, Len(recent))

\* _get_point_diff, thousandths of a point
get_point_diff(history, n_games) ==
    IF Len(history) = 0 THEN 0
    ELSE LET recent == LastN(history, n_games)
         IN  RoundDiv(SumDiffs(recent, 1) * PM, Len(recent))

get_rest_days_uncapped(history, game_date) ==
    IF Len(history) = 0 THEN 3
    ELSE Max(0, (game_date - history[Len(history)].date) - 1)

\* _get_rest_days
get_rest_days(history, game_date) ==
    IF Len(history) = 0 THEN 3
    ELSE LET delta == (game_date - history[Len(history)].date) - 1
         IN  Max(0, Min(delta, 7))

\* _get_h2h_wins
get_h2h_wins(history, away_team) ==
    Cardinality({ i \in 1..Len(history) :
                    history[i].opponent = away_team /\ history[i].win })

RECURSIVE StreakFrom(_, _, _)
\* the number of records, from position i backwards, whose result is last_result
StreakFrom(history, i, last_result) ==
    IF i = 0 \/ history[i].win # last_result THEN 0
    ELSE 1 + StreakFrom(history, i - 1, last_result)

get_streak_unsigned(history) ==
    IF Len(history) = 0 THEN 0
    ELSE StreakFrom(history, Len(history), history[Len(history)].win)

\* _get_streak
get_streak(history) ==
    IF Len(history) = 0 THEN 0
    ELSE LET last_result == history[Len(history)].win
             n == StreakFrom(history, Len(history), last_result)
         IN  IF last_result THEN n ELSE -n

\* lineup continuity: overlap with the previous starters, 0 with none known
lineup_cont(prev, lineup) ==
    IF prev # {} THEN Cardinality(prev \cap lineup) ELSE 0

\* FeatureEngineer._extract_game_features: the feature vector of `game` and the
\* engineer the call leaves behind (get_rating inserts unseen teams)
extract_game_features(eng, game) ==
    LET home_team == game.home_team
        away_team == game.away_team
        game_date == game.date
        home_hist == eng.team_game_history[home_team]
        away_hist == eng.team_game_history[away_team]
        elo1 == get_rating_map(eng.elo, home_team)
        elo2 == get_rating_map(elo1, away_team)
        season == season_from_date(game_date)
        home_adv == season_lookup(eng.advanced_lookup, eng.team_avgs_lookup,
                                  season, home_team, default_adv)
        away_adv == season_lookup(eng.advanced_lookup, eng.team_avgs_lookup,
                                  season, away_team, default_adv)
        home_avgs == season_lookup(eng.team_avgs_lookup, eng.team_avgs_lookup,
                                   season, home_team, default_avgs)
        away_avgs == season_lookup(eng.team_avgs_lookup, eng.team_avgs_lookup,
                                   season, away_team, default_avgs)
    IN  [features |->
            [date |-> game.date,
             home_team |-> home_team,
             away_team |-> away_team,
             home_win |-> game.home_win,
             home_elo |-> elo1[home_team],
             away_elo |-> elo2[away_team],
             elo_diff |-> elo2[home_team] - elo2[away_team],
             is_home |-> 1,
             home_win_rate_L10 |-> get_win_rate(home_hist, 10),
             away_win_rate_L10 |-> get_win_rate(away_hist, 10),
             home_pt_diff_L10 |-> get_point_diff(home_hist, 10),
             away_pt_diff_L10 |-> get_point_diff(away_hist, 10),
             home_rest_days |-> get_rest_days(home_hist, game_date),
             away_rest_days |-> get_rest_days(away_hist, game_date),
             home_b2b |-> IF get_rest_days(home_hist, game_date) = 0 THEN 1 ELSE 0,
             away_b2b |-> IF get_rest_days(away_hist, game_date) = 0 THEN 1 ELSE 0,
             h2h_home_wins |-> get_h2h_wins(home_hist, away_team),
             home_streak |-> get_streak(home_hist),
             away_streak |-> get_streak(away_hist),
             home_lineup_cont_overlap |->
                 lineup_cont(eng.prev_lineup[home_team], lineup_lookup(game_date, home_team)),
             away_lineup_cont_overlap |->
                 lineup_cont(eng.prev_lineup[away_team], lineup_lookup(game_date, away_team)),
             home_weighted_PER |-> home_adv.PER,
             away_weighted_PER |-> away_adv.PER,
             home_weighted_BPM |-> home_adv.BPM,
             away_weighted_BPM |-> away_adv.BPM,
             home_weighted_WS48 |-> home_adv.WS48,
             away_weighted_WS48 |-> away_adv.WS48,
             per_diff |-> home_adv.PER - away_adv.PER,
             bpm_diff |-> home_adv.BPM - away_adv.BPM,
             ws48_diff |-> home_adv.WS48 - away_adv.WS48,
             home_net_rating |-> home_avgs.net_rating,
             away_net_rating |-> away_avgs.net_rating,
             net_rating_diff |-> home_avgs.net_rating - away_avgs.net_rating,
             home_pace |-> home_avgs.pace,
             away_pace |-> away_avgs.pace,
             pace_diff |-> home_avgs.pace - away_avgs.pace,
             home_off_3pa_rate |-> home_avgs.off_3pa_rate,
             away_off_3pa_rate |-> away_avgs.off_3pa_rate,
             off_3pa_rate_diff |-> home_avgs.off_3pa_rate - away_avgs.off_3pa_rate,
             home_def_opp_3pa_rate |-> home_avgs.def_opp_3pa_rate,
             away_def_opp_3pa_rate |-> away_avgs.def_opp_3pa_rate,
             def_opp_3pa_rate_diff |->
                 home_avgs.def_opp_3pa_rate - away_avgs.def_opp_3pa_rate],
         engineer |-> [eng EXCEPT !.elo = elo2]]

append_history_windowed(history, record) == LastN(Append(history, record), 1)

\* self.team_game_history[team].append(record)
append_history(history, record) == Append(history, record)

track_lineup_always(prev_lineup, date, team) ==
    [prev_lineup EXCEPT ![team] = lineup_lookup(date, team)]

\* `if (dt, team) in self.lineup_lookup: self.prev_lineup[team] = ...`
track_lineup(prev_lineup, date, team) ==
    IF lineup_lookup(date, team) # {}
    THEN [prev_lineup EXCEPT ![team] = lineup_lookup(date, team)]
    ELSE prev_lineup

\* FeatureEngineer._update_state
update_state(eng, game) ==
    LET home_team == game.home_team
        away_team == game.away_team
        home_score == Val(game.home_score)
        away_score == Val(game.away_score)
        elo == update_ratings(eng.elo, home_team, away_team,
                              game.home_score, game.away_score).ratings
        game_record == [date |-> game.date, opponent |-> away_team,
                        score |-> home_score, opp_score |-> away_score,
                        win |-> home_score > away_score, home |-> TRUE]
        away_record == [date |-> game.date, opponent |-> home_team,
                        score |-> away_score, opp_score |-> home_score,
                        win |-> away_score > home_score, home |-> FALSE]
        h1 == [eng.team_game_history EXCEPT
                   ![home_team] = append_history(@, game_record)]
        h2 == [h1 EXCEPT ![away_team] = append_history(@, away_record)]
        p1 == track_lineup(eng.prev_lineup, game.date, home_team)
        p2 == track_lineup(p1, game.date, away_team)
    IN  [eng EXCEPT !.elo = elo, !.team_game_history = h2, !.prev_lineup = p2]

process_game_update_first(eng, game) ==
    LET updated == update_state(eng, game)
        ex == extract_game_features(updated, game)
    IN  [features |-> ex.features, engineer |-> ex.engineer]

\* one iteration of the loop of engineer_features: extract, then update
process_game(eng, game) ==
    LET ex == extract_game_features(eng, game)
    IN  [features |-> ex.features, engineer |-> update_state(ex.engineer, game)]

RECURSIVE InsertByDate(_, _)
\* `game` put into the date-sorted sequence after every row of its date
InsertByDate(sorted, game) ==
    IF sorted = <<>> THEN <<game>>
    ELSE IF Head(sorted).date <= game.date
         THEN <<Head(sorted)>> \o InsertByDate(Tail(sorted), game)
         ELSE <<game>> \o sorted

RECURSIVE sort_values_date(_)
\* games_df.sort_values("date"): rows of one date keep their input order here.
\* pandas does not promise that order, but every order of a date's rows is
\* the input order of some batch, so no processing order is left out.
sort_values_date(games) ==
    IF games = <<>> THEN <<>>
    ELSE InsertByDate(sort_values_date(SubSeq(games, 1, Len(games) - 1)),
                      games[Len(games)])

RECURSIVE update_all(_, _, _)
update_all(eng, games, i) ==
    IF i > Len(games) THEN eng
    ELSE update_all(update_state(eng, games[i]), games, i + 1)

RECURSIVE extract_all(_, _, _, _)
extract_all(eng, games, i, features_list) ==
    IF i > Len(games) THEN features_list
    ELSE extract_all(eng, games, i + 1,
                     Append(features_list, extract_game_features(eng, games[i]).features))

\* a two-pass loop: every row's state update first, every vector afterwards
engineer_loop_two_pass(eng, games, i, features_list) ==
    LET final == update_all(eng, games, i)
    IN  [engineer |-> final,
         features_list |-> extract_all(final, games, i, features_list)]

RECURSIVE engineer_loop(_, _, _, _)
\* `for idx, game in games_df.iterrows()` from row i on
engineer_loop(eng, games, i, features_list) ==
    IF i > Len(games) THEN [engineer |-> eng, features_list |-> features_list]
    ELSE LET step == process_game(eng, games[i])
         IN  engineer_loop(step.engineer, games, i + 1,
                           Append(features_list, step.features))

\* FeatureEngineer.engineer_features
engineer_features(eng, games) ==
    LET games_sorted == sort_values_date(games)
        out == engineer_loop(eng, games_sorted, 1, <<>>)
    IN  [games_df |-> games_sorted, engineer |-> out.engineer,
         features_list |-> out.features_list]

VARIABLES
    ratings,          \* EloRating.ratings: known team -> rating
    eloCall,          \* the last call on the EloRating instance, its arguments and outcome
    nCalls,           \* calls made so far on the EloRating instance
    stakeIn,          \* arguments of the calculate_stake_with_caps call
    stakeOut,         \* its result, None before the call
    recommendations,  \* table recommendations, in id order
    results,          \* table results, in id order
    today,            \* the wall-clock date (datetime.now())
    ledgerCall,       \* the last recommend_date / stub_settle_results call
    engineer,         \* the FeatureEngineer: elo ratings, team_game_history, prev_lineup
    enginePre,        \* the engineer as the last call found it
    feCall,           \* the last call on the engineer: engineer_features or extract
    batch,            \* the games_df handed to engineer_features
    games_df,         \* the sorted games_df it walked
    features_list,    \* the feature vectors the last call returned
    fnCall,           \* the last call of a pure function: its name and arguments
    fnOut,            \* what that call returned, or that it raised
    ratings_file,     \* the ratings checkpoint on disk, None while there is none
    eloConfig,        \* the hyperparameters of the EloRating instance
    cache,            \* the rows of the cache table, by key
    lastSet,          \* per key, the latest set not followed by a delete or clear
    cacheCall,        \* the last call on the Cache
    limiter,          \* the RateLimiter's fields
    limiterLog,       \* the acquire calls made so far and the times of the grants
    limiterCall,      \* the last call on the RateLimiter
    clock,            \* time.time(), seconds
    request,          \* the last BalldontlieProvider._request call and the GETs sent so far
    pollInterval      \* seconds between the acquire calls of a polling caller; 0 with none

eloVars == <<ratings, eloCall, nCalls, ratings_file, eloConfig>>
stakeVars == <<stakeIn, stakeOut>>
ledgerVars == <<recommendations, results, today, ledgerCall>>
featVars == <<engineer, enginePre, feCall, batch, games_df, features_list>>
pureVars == <<fnCall, fnOut>>
cacheVars == <<cache, lastSet, cacheCall>>
limiterVars == <<limiter, limiterLog, limiterCall>>
ioVars == <<cacheVars, limiterVars, clock, request, pollInterval>>
vars == <<eloVars, stakeVars, ledgerVars, featVars, pureVars, ioVars>>

NoCall ==
    [op |-> "none", home |-> "", away |-> "", home_score |-> None,
     away_score |-> None, pre |-> <<>>, raised |-> FALSE, ret |-> <<>>]

NoLedgerCall ==
    [op |-> "none", date |-> 0, games |-> <<>>, first |-> 0, count |-> 0,
     total_staked |-> 0]

\* EloRating() with no ratings file on disk
EloInit ==
    /\ ratings = <<>>
    /\ eloCall = NoCall
    /\ nCalls = 0
    /\ ratings_file = None
    /\ eloConfig = DefaultConfig

StakeIdle ==
    /\ stakeIn = None
    /\ stakeOut = None

\* init_db on a fresh database
LedgerInit ==
    /\ recommendations = <<>>
    /\ results = <<>>
    /\ ledgerCall = NoLedgerCall

PureIdle ==
    /\ fnCall = NoFnCall
    /\ fnOut = Returned(None)

\* RateLimiter(requests_per_minute) built at time 0
LimiterInit(requests_per_minute) ==
    /\ limiter = NewLimiter(requests_per_minute, 0)
    /\ limiterLog = NewLimiterLog(0)
    /\ limiterCall = NoLimiterCall

\* no _request call made yet, no GET sent
NoRequest ==
    [op |-> "none", key |-> "", hit |-> FALSE, gets |-> 0, total_gets |-> 0,
     raised |-> FALSE, ret |-> None]

\* Cache(db_path) on a new database file
CacheInit ==
    /\ cache = <<>>
    /\ lastSet = [k \in CacheKeys |-> None]
    /\ cacheCall = NoCacheCall

\* a new cache and a new limiter at time 0
IoIdle ==
    /\ CacheInit
    /\ LimiterInit(60)
    /\ clock = 0
    /\ request = NoRequest
    /\ pollInterval = 0

FeatInit ==
    /\ engineer = NewEngineer
    /\ enginePre = NewEngineer
    /\ feCall = "none"
    /\ batch = <<>>
    /\ games_df = <<>>
    /\ features_list = <<>>

\* ---------------------------------------------------------- rating engine
GetRating(team) ==
    /\ nCalls < MaxCalls
    /\ ratings' = get_rating_map(ratings, team)
    /\ eloCall' = [NoCall EXCEPT !.op = "get_rating", !.home = team,
                                 !.pre = ratings,
                                 !.ret = <<get_rating(ratings, team)>>]
    /\ nCalls' = nCalls + 1
    /\ UNCHANGED <<ratings_file, eloConfig, stakeVars, ledgerVars, featVars, pureVars, ioVars>>

UpdateRatings(home_team, away_team, scores) ==
    /\ nCalls < MaxCalls
    /\ LET out == update_ratings(ratings, home_team, away_team, scores[1], scores[2])
       IN  /\ ratings' = out.ratings
           /\ eloCall' = [op |-> "update_ratings", home |-> home_team,
                          away |-> away_team, home_score |-> scores[1],
                          away_score |-> scores[2], pre |-> ratings,
                          raised |-> out.raised, ret |-> out.ret]
    /\ nCalls' = nCalls + 1
    /\ UNCHANGED <<ratings_file, eloConfig, stakeVars, ledgerVars, featVars, pureVars, ioVars>>

InitElo == EloInit /\ StakeIdle /\ LedgerInit /\ FeatInit /\ PureIdle /\ IoIdle /\ today = 1

NextElo ==
    \/ \E t \in Teams : GetRating(t)
    \/ \E h \in Teams, a \in Teams, s \in EloScorePairs : UpdateRatings(h, a, s)

SpecElo == InitElo /\ [][NextElo]_vars

\* --------------------------------------------------------- ratings checkpoint
\* EloRating.save_ratings
SaveRatings ==
    /\ ratings_file' = Some([ratings |-> ratings,
                             k_factor |-> eloConfig.k_factor,
                             home_advantage |-> eloConfig.home_advantage,
                             initial_rating |-> eloConfig.initial_rating])
    /\ eloCall' = [NoCall EXCEPT !.op = "save_ratings", !.pre = ratings]
    /\ UNCHANGED <<ratings, nCalls, eloConfig, stakeVars, ledgerVars, featVars, pureVars, ioVars>>

\* EloRating(k_factor, home_advantage, initial_rating, ratings_file): a new
\* instance with hyperparameters `config`, whose __init__ runs _load_ratings
LoadRatings(config) ==
    /\ eloConfig' = config
    /\ ratings' = IF IsNone(ratings_file) THEN <<>> ELSE Val(ratings_file).ratings
    /\ eloCall' = [NoCall EXCEPT !.op = "load_ratings", !.pre = ratings]
    /\ UNCHANGED <<nCalls, ratings_file, stakeVars, ledgerVars, featVars, pureVars, ioVars>>

\* EloRating() in a directory that holds no checkpoint or a stored one
InitCheckpoint ==
    /\ ratings_file \in {None} \cup { Some(c) : c \in StoredCheckpoints }
    /\ ratings = IF IsNone(ratings_file) THEN <<>> ELSE Val(ratings_file).ratings
    /\ eloCall = NoCall
    /\ nCalls = 0
    /\ eloConfig = DefaultConfig
    /\ StakeIdle /\ LedgerInit /\ FeatInit /\ PureIdle /\ IoIdle /\ today = 1

\* rating updates are explored for the default hyperparameters, which are the
\* ones update_ratings above is written for
NextCheckpoint ==
    \/ \E h \in Teams, a \in Teams, s \in DecisiveScores :
            eloConfig = DefaultConfig /\ UpdateRatings(h, a, s)
    \/ SaveRatings
    \/ \E config \in EloConfigs : LoadRatings(config)

SpecCheckpoint == InitCheckpoint /\ [][NextCheckpoint]_vars

\* ---------------------------------------------------------------- staking
InitStake ==
    /\ EloInit /\ LedgerInit /\ FeatInit /\ PureIdle /\ IoIdle /\ today = 1
    /\ stakeIn \in [prob_win : StakeProbs, odds_decimal : StakeOdds,
                    bankroll : StakeBankrolls,
                    kelly_fraction_value : StakeKellyFractions,
                    max_per_bet : StakeCaps]
    /\ stakeOut = None

CalculateStake ==
    /\ IsNone(stakeOut)
    /\ stakeOut' = Some(calculate_stake_with_caps(stakeIn.prob_win, stakeIn.odds_decimal,
                        stakeIn.bankroll, stakeIn.kelly_fraction_value,
                        stakeIn.max_per_bet))
    /\ UNCHANGED <<stakeIn, eloVars, ledgerVars, featVars, pureVars, ioVars>>

NextStake == CalculateStake

SpecStake == InitStake /\ [][NextStake]_vars

\* ----------------------------------------------------------------- ledger
\* RecommendationEngine.recommend_date(date_str) with `games` the games the
\* provider returns for the date, each with the quotes found for its two teams
RecommendDate(date_str, games) ==
    LET recs == slate_recs(date_str, games, 1)
        n == Len(recommendations)
    IN  /\ recommendations' =
               recommendations \o [i \in 1..Len(recs) |-> rec_row(recs[i], n + i, today)]
        /\ ledgerCall' = [op |-> "recommend_date", date |-> date_str, games |-> games,
                          first |-> n + 1, count |-> Len(recs),
                          total_staked |-> SumStake(recs)]
        /\ UNCHANGED <<results, today, eloVars, stakeVars, featVars, pureVars, ioVars>>

unsettled_ids_any(date_str) ==
    { i \in 1..Len(recommendations) : recommendations[i].created_at = date_str }

\* ids of the recommendations stub_settle_results(date_str) selects:
\* created_at LIKE 'date_str%' AND id NOT IN (SELECT recommendation_id FROM results)
unsettled_ids(date_str) ==
    { i \in 1..Len(recommendations) :
        /\ recommendations[i].created_at = date_str
        /\ \A k \in 1..Len(results) : results[k].recommendation_id # i }

RECURSIVE SetToSeq(_)
\* the elements of a set of ids in increasing order
SetToSeq(S) ==
    IF S = {} THEN <<>>
    ELSE LET m == CHOOSE x \in S : \A y \in S : x <= y
         IN  <<m>> \o SetToSeq(S \ {m})

\* a settlement that also writes the outcome back into the settled recommendations
StubSettleResultsUpdating(date_str) ==
    LET ids == SetToSeq(unsettled_ids(date_str))
    IN  /\ results' = results \o [k \in 1..Len(ids) |-> result_row(ids[k], today)]
        /\ recommendations' =
               [i \in 1..Len(recommendations) |->
                   IF i \in unsettled_ids(date_str)
                   THEN [recommendations[i] EXCEPT !.stake_suggested = 0]
                   ELSE recommendations[i]]
        /\ ledgerCall' = [NoLedgerCall EXCEPT !.op = "stub_settle_results",
                                              !.date = date_str,
                                              !.count = Len(ids)]
        /\ UNCHANGED <<today, eloVars, stakeVars, featVars, pureVars, ioVars>>

\* SettlementEngine.stub_settle_results(date_str)
StubSettleResults(date_str) ==
    LET ids == SetToSeq(unsettled_ids(date_str))
    IN  /\ results' = results \o [k \in 1..Len(ids) |-> result_row(ids[k], today)]
        /\ ledgerCall' = [NoLedgerCall EXCEPT !.op = "stub_settle_results",
                                              !.date = date_str,
                                              !.count = Len(ids)]
        /\ UNCHANGED <<recommendations, today, eloVars, stakeVars, featVars, pureVars, ioVars>>

\* the wall clock passes midnight
Tick ==
    /\ today + 1 \in Days
    /\ today' = today + 1
    /\ UNCHANGED <<recommendations, results, ledgerCall, eloVars, stakeVars, featVars, pureVars, ioVars>>

\* one recommend_date call on a fresh database, any slate of up to MaxGames games
InitDay == EloInit /\ StakeIdle /\ LedgerInit /\ FeatInit /\ PureIdle /\ IoIdle /\ today \in Days

NextDay ==
    \E d \in Days, games \in SeqsUpTo(GameOdds, MaxGames) :
        /\ ledgerCall.op = "none"
        /\ RecommendDate(d, games)

SpecDay == InitDay /\ [][NextDay]_vars

\* any sequence of recommend_date and stub_settle_results calls and midnights
InitLedger == EloInit /\ StakeIdle /\ LedgerInit /\ FeatInit /\ PureIdle /\ IoIdle /\ today = 1

NextLedger ==
    \/ \E d \in Days, games \in SeqsUpTo(LedgerOdds, MaxSlate) :
            /\ Len(recommendations) + Len(games) <= MaxRows
            /\ RecommendDate(d, games)
    \/ \E d \in Days : StubSettleResults(d)
    \/ Tick

SpecLedger == InitLedger /\ [][NextLedger]_vars


\* ------------------------------------------------------ feature pipeline
\* engineer.engineer_features(games)
EngineerFeatures(games) ==
    LET out == engineer_features(engineer, games)
    IN  /\ engineer' = out.engineer
        /\ enginePre' = engineer
        /\ feCall' = "engineer_features"
        /\ batch' = games
        /\ games_df' = out.games_df
        /\ features_list' = out.features_list
        /\ UNCHANGED <<eloVars, stakeVars, ledgerVars, pureVars, ioVars>>

\* an extraction that also records the fixture's starters as the home team's
\* previous lineup
ExtractOnlyRecordingLineup(game) ==
    LET ex == extract_game_features(engineer, game)
    IN  /\ engineer' = [ex.engineer EXCEPT !.prev_lineup[game.home_team] =
                                              lineup_lookup(game.date, game.home_team)]
        /\ enginePre' = engineer
        /\ feCall' = "extract"
        /\ batch' = <<game>>
        /\ games_df' = <<game>>
        /\ features_list' = <<ex.features>>
        /\ UNCHANGED <<eloVars, stakeVars, ledgerVars, pureVars, ioVars>>

\* engineer._extract_game_features(row), with no state update
\* (DailyInferenceEngine.score_games)
ExtractOnly(game) ==
    LET ex == extract_game_features(engineer, game)
    IN  /\ engineer' = ex.engineer
        /\ enginePre' = engineer
        /\ feCall' = "extract"
        /\ batch' = <<game>>
        /\ games_df' = <<game>>
        /\ features_list' = <<ex.features>>
        /\ UNCHANGED <<eloVars, stakeVars, ledgerVars, pureVars, ioVars>>

\* training: one engineer_features call on a fresh engineer
InitFeat == EloInit /\ StakeIdle /\ LedgerInit /\ FeatInit /\ PureIdle /\ IoIdle /\ today = 1

NextFeat ==
    \E games \in SeqsUpTo(FeatGames, MaxBatch) :
        /\ feCall = "none"
        /\ EngineerFeatures(games)

SpecFeat == InitFeat /\ [][NextFeat]_vars

\* inference: the engineer is fed a history batch (or none), then fixtures are
\* scored one at a time without state updates
NextInfer ==
    \/ \E games \in SeqsUpTo(FeatGames, MaxBatch) :
            /\ feCall = "none"
            /\ EngineerFeatures(games)
    \/ \E game \in InferGames : ExtractOnly(game)

SpecInfer == InitFeat /\ [][NextInfer]_vars

\* forecasting: an engineer built with side tables scores fixtures of several
\* seasons
SeasonFixtures ==
    { GameRow(d, m[1], m[2], None, None) : d \in SeasonDates, m \in FeatMatchups }

InitSeason ==
    /\ EloInit /\ StakeIdle /\ LedgerInit /\ PureIdle /\ IoIdle /\ today = 1
    /\ \E advanced_lookup \in AdvancedTables, team_avgs_lookup \in TeamAvgsTables :
          engineer = FeatureEngineer(advanced_lookup, team_avgs_lookup)
    /\ enginePre = engineer
    /\ feCall = "none"
    /\ batch = <<>>
    /\ games_df = <<>>
    /\ features_list = <<>>

NextSeason == \E game \in SeasonFixtures : ExtractOnly(game)

SpecSeason == InitSeason /\ [][NextSeason]_vars

\* engineer._update_state(row), called on its own
UpdateState(game) ==
    /\ engineer' = update_state(engineer, game)
    /\ enginePre' = engineer
    /\ feCall' = "update_state"
    /\ batch' = <<game>>
    /\ games_df' = <<game>>
    /\ features_list' = <<>>
    /\ UNCHANGED <<eloVars, stakeVars, ledgerVars, pureVars, ioVars>>

RECURSIVE SumLen(_, _)
SumLen(history, teams) ==
    IF teams = {} THEN 0
    ELSE LET t == CHOOSE x \in teams : TRUE
         IN  Len(history[t]) + SumLen(history, teams \ {t})

\* state updates applied so far: each appends two history records
UpdatesDone == SumLen(engineer.team_game_history, Teams) \div 2

\* any interleaving of feature extractions and state updates
NextHistory ==
    \/ \E game \in HistoryGames : UpdatesDone < MaxUpdates /\ UpdateState(game)
    \/ \E game \in HistoryFixtures : ExtractOnly(game)

SpecHistory == InitFeat /\ [][NextHistory]_vars

\* ------------------------------------------------------------------ Cache
CacheSet(key, value, ttl) ==
    /\ cache' = cache_set(cache, key, value, ttl, clock)
    /\ lastSet' = [lastSet EXCEPT ![key] =
                      Some([value |-> value, at |-> clock,
                            ttl |-> IF IsNone(ttl) THEN default_ttl ELSE Val(ttl)])]
    /\ cacheCall' = [NoCacheCall EXCEPT !.op = "set", !.key = key, !.now = clock,
                                         !.pre = cache]
    /\ UNCHANGED <<clock, limiterVars, eloVars, stakeVars, ledgerVars, featVars, pureVars, request,
                   pollInterval>>

CacheGet(key) ==
    LET out == cache_get(cache, key, clock)
    IN  /\ cache' = out.rows
        /\ cacheCall' = [NoCacheCall EXCEPT !.op = "get", !.key = key, !.now = clock,
                                             !.ret = out.ret, !.pre = cache]
        /\ UNCHANGED <<lastSet, clock, limiterVars, eloVars, stakeVars, ledgerVars,
                       featVars, pureVars, request,
                   pollInterval>>

CacheDelete(key) ==
    /\ cache' = cache_without(cache, key)
    /\ lastSet' = [lastSet EXCEPT ![key] = None]
    /\ cacheCall' = [NoCacheCall EXCEPT !.op = "delete", !.key = key, !.now = clock,
                                         !.pre = cache]
    /\ UNCHANGED <<clock, limiterVars, eloVars, stakeVars, ledgerVars, featVars, pureVars, request,
                   pollInterval>>

CacheClear ==
    /\ cache' = <<>>
    /\ lastSet' = [k \in CacheKeys |-> None]
    /\ cacheCall' = [NoCacheCall EXCEPT !.op = "clear", !.now = clock, !.pre = cache]
    /\ UNCHANGED <<clock, limiterVars, eloVars, stakeVars, ledgerVars, featVars, pureVars, request,
                   pollInterval>>

CleanupExpired ==
    LET out == cleanup_expired(cache, clock)
    IN  /\ cache' = out.rows
        /\ cacheCall' = [NoCacheCall EXCEPT !.op = "cleanup_expired", !.now = clock,
                                             !.deleted = out.deleted, !.pre = cache]
        /\ UNCHANGED <<lastSet, clock, limiterVars, eloVars, stakeVars, ledgerVars,
                       featVars, pureVars, request,
                   pollInterval>>

\* a second passes
ClockTick ==
    /\ clock < MaxClock
    /\ clock' = clock + 1
    /\ UNCHANGED <<cacheVars, limiterVars, eloVars, stakeVars, ledgerVars, featVars, pureVars, request,
                   pollInterval>>

InitCache == EloInit /\ StakeIdle /\ LedgerInit /\ FeatInit /\ PureIdle /\ IoIdle /\ today = 1

NextCache ==
    \/ \E key \in CacheKeys, value \in CacheValues, ttl \in CacheTtls :
            CacheSet(key, value, ttl)
    \/ \E key \in CacheKeys : CacheGet(key)
    \/ \E key \in CacheKeys : CacheDelete(key)
    \/ CacheClear
    \/ CleanupExpired
    \/ ClockTick

SpecCache == InitCache /\ [][NextCache]_vars

\* ------------------------------------------------------------ RateLimiter
\* the log after an acquire(blocking) call that ended at time `at` with result
\* `granted`
Logged(blocking, granted, at) ==
    [limiterLog EXCEPT !.grants = IF granted THEN Append(@, at) ELSE @,
                       !.calls = @ + 1,
                       !.attempts = @ + 1,
                       !.blocking = IF blocking THEN @ + 1 ELSE @]

\* limiter.acquire(blocking=False)
AcquireNonBlocking ==
    LET out == acquire_nonblocking(limiter, clock)
    IN  /\ limiterLog.calls < MaxAcquires
        /\ limiter' = out.limiter
        /\ limiterLog' = Logged(FALSE, out.ret, clock)
        /\ limiterCall' = [NoLimiterCall EXCEPT !.op = "acquire", !.now = clock,
                                                 !.ret = out.ret]
        /\ UNCHANGED <<clock, cacheVars, eloVars, stakeVars, ledgerVars, featVars, pureVars, request,
                   pollInterval>>

\* limiter.acquire(blocking=True)
AcquireBlocking ==
    \E oversleep \in {0, 1} :
        LET out == acquire_blocking(limiter, clock, oversleep)
        IN  /\ limiterLog.calls < MaxAcquires
            /\ out.now <= MaxClock
            /\ clock' = out.now
            /\ limiter' = out.limiter
            /\ limiterLog' = Logged(TRUE, out.ret, out.now)
            /\ limiterCall' = [NoLimiterCall EXCEPT !.op = "acquire", !.now = out.now,
                                                     !.ret = out.ret,
                                                     !.raised = out.raised]
            /\ UNCHANGED <<cacheVars, eloVars, stakeVars, ledgerVars, featVars, pureVars,
                           request, pollInterval>>

\* limiter.get_available_tokens()
GetAvailableTokens ==
    /\ limiter' = refill_tokens(limiter, clock)
    /\ limiterCall' = [NoLimiterCall EXCEPT !.op = "get_available_tokens", !.now = clock]
    /\ UNCHANGED <<limiterLog, clock, cacheVars, eloVars, stakeVars, ledgerVars,
                   featVars, pureVars, request,
                   pollInterval>>

\* limiter.reset()
Reset ==
    /\ limiter' = reset(limiter, clock)
    /\ limiterLog' = [limiterLog EXCEPT !.epoch = Len(limiterLog.grants),
                                        !.epoch_at = clock,
                                        !.attempts = 0,
                                        !.blocking = 0]
    /\ limiterCall' = [NoLimiterCall EXCEPT !.op = "reset", !.now = clock]
    /\ UNCHANGED <<clock, cacheVars, eloVars, stakeVars, ledgerVars, featVars, pureVars, request,
                   pollInterval>>

\* RateLimiter(requests_per_minute) for any of the rates
InitLimiter ==
    /\ EloInit /\ StakeIdle /\ LedgerInit /\ FeatInit /\ PureIdle /\ today = 1
    /\ CacheInit
    /\ \E requests_per_minute \in LimiterRates : LimiterInit(requests_per_minute)
    /\ clock = 0
    /\ request = NoRequest
    /\ pollInterval = 0

NextLimiter ==
    \/ AcquireNonBlocking
    \/ AcquireBlocking
    \/ GetAvailableTokens
    \/ Reset
    \/ ClockTick

SpecLimiter == InitLimiter /\ [][NextLimiter]_vars

\* ------------------------------------------------------- a polling caller
\* requests_per_minute of the limiter polled, and the seconds between polls
PollRates == {1, 30, 60}
PollIntervals == {1, 2, 60}

\* `while True: time.sleep(interval); limiter.acquire(blocking=False)`: one more
\* poll, pollInterval seconds after the latest one. Only the time elapsed
\* since last_update enters the limiter, so time is counted from the latest
\* poll; the log of grants is not kept.
PollAcquire ==
    LET out == acquire_nonblocking(limiter, limiter.last_update + pollInterval)
    IN  /\ pollInterval > 0
        /\ limiter' = [out.limiter EXCEPT !.last_update = limiter.last_update]
        /\ limiterCall' = [NoLimiterCall EXCEPT !.op = "acquire", !.now = clock,
                                                 !.ret = out.ret]
        /\ UNCHANGED <<limiterLog, clock, cacheVars, request, pollInterval,
                       eloVars, stakeVars, ledgerVars, featVars, pureVars>>

InitPolling ==
    /\ EloInit /\ StakeIdle /\ LedgerInit /\ FeatInit /\ PureIdle /\ today = 1
    /\ CacheInit
    /\ \E requests_per_minute \in PollRates : LimiterInit(requests_per_minute)
    /\ clock = 0
    /\ request = NoRequest
    /\ pollInterval \in PollIntervals

NextPolling == PollAcquire

\* the caller keeps polling
SpecPolling == InitPolling /\ [][NextPolling]_vars /\ WF_vars(NextPolling)

\* ----------------------------------------------------- BalldontlieProvider
\* provider._request(endpoint, params) for the cache key `key`. `fails` GETs
\* fail (a non-200 status, a timeout, a body that is not JSON) before one
\* answers 200 with the JSON document `data`; with more than max_retries
\* failures the last exception is raised. HTTP latency is taken as zero; the
\* backoff before attempt i + 1 is backoff_seconds * i.
Request(key, fails, data, oversleep) ==
    LET cached == cache_get(cache, key, clock)
        acq == acquire_blocking(limiter, clock, oversleep)
        gets == Min(fails, max_retries) + 1
        backoffs == Min(fails, max_retries)
        done == acq.now + backoff_seconds * ((backoffs * (backoffs + 1)) \div 2)
    IN  /\ limiterLog.calls < MaxAcquires
        /\ IF ~IsNone(cached.ret)
           THEN \* `if cached is not None: return cached`
                /\ cache' = cached.rows
                /\ cacheCall' = [NoCacheCall EXCEPT !.op = "get", !.key = key,
                                                     !.now = clock, !.ret = cached.ret,
                                                     !.pre = cache]
                /\ request' = [NoRequest EXCEPT !.op = "_request", !.key = key,
                                                 !.hit = TRUE, !.ret = cached.ret,
                                                 !.total_gets = request.total_gets]
                /\ UNCHANGED <<lastSet, limiterVars, clock>>
           ELSE IF acq.raised
           THEN \* acquire raised: no GET is sent
                /\ cache' = cached.rows
                /\ cacheCall' = [NoCacheCall EXCEPT !.op = "get", !.key = key,
                                                     !.now = clock, !.pre = cache]
                /\ limiter' = acq.limiter
                /\ limiterLog' = Logged(TRUE, FALSE, acq.now)
                /\ limiterCall' = [NoLimiterCall EXCEPT !.op = "acquire",
                                                         !.now = acq.now,
                                                         !.raised = TRUE]
                /\ request' = [NoRequest EXCEPT !.op = "_request", !.key = key,
                                                 !.raised = TRUE,
                                                 !.total_gets = request.total_gets]
                /\ UNCHANGED <<lastSet, clock>>
           ELSE \* the result of acquire is not looked at; the GETs follow
                /\ done <= MaxClock
                /\ clock' = done
                /\ limiter' = acq.limiter
                /\ limiterLog' = Logged(TRUE, acq.ret, acq.now)
                /\ limiterCall' = [NoLimiterCall EXCEPT !.op = "acquire",
                                                         !.now = acq.now,
                                                         !.ret = acq.ret]
                /\ IF fails > max_retries
                   THEN /\ cache' = cached.rows
                        /\ cacheCall' = [NoCacheCall EXCEPT !.op = "get", !.key = key,
                                                             !.now = clock,
                                                             !.pre = cache]
                        /\ UNCHANGED lastSet
                   ELSE /\ cache' = cache_set(cached.rows, key, data, None, done)
                        /\ cacheCall' = [NoCacheCall EXCEPT !.op = "set", !.key = key,
                                                             !.now = done,
                                                             !.pre = cached.rows]
                        /\ lastSet' = [lastSet EXCEPT ![key] =
                                          Some([value |-> data, at |-> done,
                                                ttl |-> default_ttl])]
                /\ request' = [op |-> "_request", key |-> key, hit |-> FALSE,
                               gets |-> gets,
                               total_gets |-> request.total_gets + gets,
                               raised |-> fails > max_retries,
                               ret |-> IF fails > max_retries THEN None ELSE Some(data)]
        /\ UNCHANGED <<eloVars, stakeVars, ledgerVars, featVars, pureVars, pollInterval>>

\* a provider with a new cache and a limiter of any of the rates
InitRequest == InitLimiter

NextRequest ==
    \/ \E key \in CacheKeys, fails \in 0..(max_retries + 1), data \in CacheValues,
          oversleep \in {0, 1} :
            Request(key, fails, data, oversleep)
    \/ ClockTick

SpecRequest == InitRequest /\ [][NextRequest]_vars

\* ----------------------------------------------------------- pure functions
\* kelly_fraction(prob_win, odds_decimal)
KellyFraction(prob_win, odds_decimal) ==
    /\ fnCall = NoFnCall
    /\ fnCall' = [fn |-> "kelly_fraction", args |-> <<prob_win, odds_decimal>>]
    /\ fnOut' = Returned(kelly_fraction(prob_win, odds_decimal))
    /\ UNCHANGED <<eloVars, stakeVars, ledgerVars, featVars, ioVars>>

InitPure == EloInit /\ StakeIdle /\ LedgerInit /\ FeatInit /\ PureIdle /\ IoIdle /\ today = 1

NextKelly ==
    \E prob_win \in KellyProbs, odds_decimal \in KellyOdds :
        KellyFraction(prob_win, odds_decimal)

SpecKelly == InitPure /\ [][NextKelly]_vars

\* decimal_to_american(american_to_decimal(american_odds))
OddsRoundTrip(american_odds) ==
    LET decimal_odds == american_to_decimal(american_odds)
    IN  /\ fnCall = NoFnCall
        /\ fnCall' = [fn |-> "decimal_to_american(american_to_decimal)",
                      args |-> <<american_odds>>]
        /\ fnOut' = IF decimal_odds.raised THEN Raised
                    ELSE decimal_to_american(decimal_odds.value)
        /\ UNCHANGED <<eloVars, stakeVars, ledgerVars, featVars, ioVars>>

\* one call of an odds.math function that takes a probability
PureCall(fn, args, out) ==
    /\ fnCall = NoFnCall
    /\ fnCall' = [fn |-> fn, args |-> args]
    /\ fnOut' = out
    /\ UNCHANGED <<eloVars, stakeVars, ledgerVars, featVars, ioVars>>

ImpliedProbToAmerican(prob) ==
    PureCall("implied_prob_to_american", <<prob>>, implied_prob_to_american(prob))

ImpliedProbToDecimal(prob) ==
    PureCall("implied_prob_to_decimal", <<prob>>, implied_prob_to_decimal(prob))

RemoveVigTwoWay(prob_a, prob_b) ==
    PureCall("remove_vig_two_way", <<prob_a, prob_b>>, remove_vig_two_way(prob_a, prob_b))

ExpectedValue(prob_win, payout, stake) ==
    PureCall("expected_value", <<prob_win, payout, stake>>,
             expected_value(prob_win, payout, stake))

Edge(prob_model, prob_market_fair) ==
    PureCall("edge", <<prob_model, prob_market_fair>>, edge(prob_model, prob_market_fair))

NextOdds ==
    \/ \E american_odds \in AmericanOdds : OddsRoundTrip(american_odds)
    \/ \E prob \in OddsProbs : ImpliedProbToAmerican(prob)
    \/ \E prob \in OddsProbs : ImpliedProbToDecimal(prob)
    \/ \E prob_a \in OddsProbs, prob_b \in OddsProbs : RemoveVigTwoWay(prob_a, prob_b)
    \/ \E prob_win \in OddsProbs, payout \in EvAmounts, stake \in EvAmounts :
            ExpectedValue(prob_win, payout, stake)
    \/ \E prob_model \in OddsProbs, prob_market_fair \in OddsProbs :
            Edge(prob_model, prob_market_fair)

SpecOdds == InitPure /\ [][NextOdds]_vars

\* ------------------------------------------------------- rating engine claims
\* the rating a team held before a call (get_rating's value for an unseen team)
OldRating(pre, team) == IF team \in DOMAIN pre THEN pre[team] ELSE initial_rating

Malformed(score) == IsNone(score) \/ Val(score) < 0

UpdateReturned == eloCall.op = "update_ratings" /\ ~eloCall.raised

\* C3: rating zero-sum. For every update_ratings call that returns, the change
\* of the returned home rating and the change of the returned away rating,
\* each against the rating held before the call, add up to zero.
C3_ZeroSum ==
    UpdateReturned =>
        (eloCall.ret[1] - OldRating(eloCall.pre, eloCall.home))
        + (eloCall.ret[2] - OldRating(eloCall.pre, eloCall.away)) = 0

\* C3 witness: a call between two teams with unequal stored ratings has moved
\* the home rating
C3_Witness ==
    /\ UpdateReturned
    /\ eloCall.home # eloCall.away
    /\ eloCall.home \in DOMAIN eloCall.pre
    /\ eloCall.away \in DOMAIN eloCall.pre
    /\ eloCall.pre[eloCall.home] # eloCall.pre[eloCall.away]
    /\ eloCall.ret[1] # eloCall.pre[eloCall.home]

\* C4: update_ratings rejects a malformed score (negative or missing) with an
\* error, and the rejected call leaves the rating map as it found it.
C4_RejectMalformed ==
    (eloCall.op = "update_ratings"
        /\ (Malformed(eloCall.home_score) \/ Malformed(eloCall.away_score)))
    => (eloCall.raised /\ ratings = eloCall.pre)

\* ------------------------------------------------------------ staking claims
\* C6: every result of calculate_stake_with_caps with bankroll >= 0 and
\* max_per_bet >= 0 has 0 <= stake_dollars <= bankroll * max_per_bet, whatever
\* prob_win, odds_decimal and kelly_fraction_value were passed.
C6_StakeWithinCap ==
    (~IsNone(stakeOut) /\ stakeIn.bankroll >= 0 /\ stakeIn.max_per_bet >= 0)
    => /\ 0 <= Val(stakeOut).stake_dollars
       /\ Val(stakeOut).stake_dollars
              <= RoundDiv(stakeIn.bankroll * stakeIn.max_per_bet, BP)

\* ------------------------------------------------------------- ledger claims
\* the rows the last recommend_date call inserted
NewRows == ledgerCall.first .. Len(recommendations)

\* the edge of one side of a game: model probability minus vig-removed market
\* probability
SideEdge(quotes, side) ==
    LET home_implied == implied_of(quotes[1])
        away_implied == implied_of(quotes[2])
        total_implied == home_implied + away_implied
    IN  IF side = "home"
        THEN stub_model_probability - fair_prob(home_implied, total_implied)
        ELSE (BP - stub_model_probability) - fair_prob(away_implied, total_implied)

\* C7: recommend_date writes a recommendation for a selection only if the
\* selection's edge is strictly greater than 0.01: every row it wrote carries
\* the edge of its selection and that edge exceeds 0.01, and no row was
\* written for a selection whose edge is 0.01 or less.
C7_EdgeThreshold ==
    ledgerCall.op = "recommend_date" =>
        /\ \A i \in NewRows :
              LET row == recommendations[i]
              IN  /\ row.edge = SideEdge(ledgerCall.games[row.game_id[2]], row.selection)
                  /\ row.edge > min_edge
        /\ \A g \in 1..Len(ledgerCall.games), side \in {"home", "away"} :
              SideEdge(ledgerCall.games[g], side) <= min_edge
              => ~\E i \in NewRows :
                      /\ recommendations[i].game_id = <<ledgerCall.date, g>>
                      /\ recommendations[i].selection = side

\* C7 witness: one call declined a selection whose edge is exactly 0.01 and
\* recommended another selection
C7_Witness ==
    /\ ledgerCall.op = "recommend_date"
    /\ \E g \in 1..Len(ledgerCall.games) : SideEdge(ledgerCall.games[g], "home") = min_edge
    /\ ledgerCall.count >= 1

\* C8: the stakes of the recommendations one recommend_date call emits sum to
\* at most bankroll * max_per_day (20% of 1000.0), however many games there are.
C8_DailyCap ==
    ledgerCall.op = "recommend_date" =>
        ledgerCall.total_staked <= RoundDiv(rec_bankroll * max_per_day, BP)

\* C10: a recommendation is never changed after it is written. Every step
\* keeps each existing row of recommendations as it is and deletes none;
\* results only grows, and each row added to it is linked to an existing
\* recommendation.
C10_RecsImmutable ==
    [][ /\ Len(recommendations') >= Len(recommendations)
        /\ \A i \in 1..Len(recommendations) : recommendations'[i] = recommendations[i]
        /\ Len(results') >= Len(results)
        /\ \A k \in 1..Len(results) : results'[k] = results[k]
        /\ \A k \in (Len(results) + 1)..Len(results') :
              results'[k].recommendation_id \in 1..Len(recommendations) ]_vars

\* C10 witness: a settlement has just settled recommendations, with at least
\* two recommendations in the table
C10_Witness ==
    /\ ledgerCall.op = "stub_settle_results"
    /\ ledgerCall.count >= 1
    /\ Len(recommendations) >= 2
    /\ Len(results) >= 1

\* ---------------------------------------------------- feature pipeline claims
RECURSIVE StateAfter(_, _, _)
\* the engineer after the state updates of the first n rows of `games`, and
\* nothing else
StateAfter(eng, games, n) ==
    IF n = 0 THEN eng
    ELSE update_state(StateAfter(eng, games, n - 1), games[n])

IsSortedByDate(games) ==
    \A i, j \in 1..Len(games) : i < j => games[i].date <= games[j].date

Occurrences(games, g) == Cardinality({ i \in 1..Len(games) : games[i] = g })

IsPermutation(a, b) ==
    /\ Len(a) = Len(b)
    /\ \A i \in 1..Len(a) : Occurrences(a, a[i]) = Occurrences(b, a[i])

\* C1: engineer_features walks the batch in ascending date order, and the
\* vector it returns for the k-th game is the one extracted from the engineer
\* as the state updates of exactly the first k-1 games left it: the game's own
\* update has not been applied when its vector is read.
C1_ExtractBeforeUpdate ==
    feCall = "engineer_features" =>
        /\ IsSortedByDate(games_df)
        /\ IsPermutation(games_df, batch)
        /\ Len(features_list) = Len(games_df)
        /\ \A k \in 1..Len(games_df) :
              features_list[k] =
                  extract_game_features(StateAfter(enginePre, games_df, k - 1),
                                        games_df[k]).features

\* a batch the sort reorders, whose second vector shows the first game's update
C1_Witness ==
    /\ feCall = "engineer_features"
    /\ Len(games_df) = 2
    /\ games_df # batch
    /\ features_list[1].home_elo = initial_rating
    /\ features_list[2].home_elo # initial_rating
    /\ features_list[2].home_streak # 0

\* the row `game` with another final score
WithOutcome(game, sc) ==
    GameRow(game.date, game.home_team, game.away_team, Some(sc[1]), Some(sc[2]))

\* what may follow the k-th game in another batch: nothing, the same rows, the
\* same rows with the first of them replayed to another score, or one other row
LaterAlternatives(k) ==
    LET later == SubSeq(games_df, k + 1, Len(games_df))
    IN  {<<>>, later}
        \cup { <<WithOutcome(later[1], sc)>> \o Tail(later) :
                 sc \in IF later = <<>> THEN {} ELSE FeatScores }
        \cup { <<x>> : x \in { y \in FeatGames : y.date >= games_df[k].date
                                                /\ y.home_score = Some(3) } }

\* the batches that agree with games_df on the rows before the k-th and on the
\* k-th game's identity
AltBatches(k) ==
    { SubSeq(games_df, 1, k - 1) \o <<WithOutcome(games_df[k], sc)>> \o later :
        sc \in FeatScores, later \in LaterAlternatives(k) }

\* a feature vector without its label column
WithoutLabel(v) == [f \in (DOMAIN v) \ {"home_win"} |-> v[f]]

\* C2 (as stated): no entry of the vector of game g depends on g's own outcome
\* or on any later game: a run on any batch with the same rows before g returns
\* the same vector for g.
C2_NoOutcomeDependence ==
    feCall = "engineer_features" =>
        \A k \in 1..Len(games_df) : \A alt \in AltBatches(k) :
            engineer_features(enginePre, alt).features_list[k] = features_list[k]

\* C2 (amended): every entry of the vector of game g other than the label
\* home_win is the same whatever g's outcome and whatever follows g; the label
\* home_win is g's own outcome.
C2_NoLookAheadButLabel ==
    feCall = "engineer_features" =>
        \A k \in 1..Len(games_df) :
            /\ features_list[k].home_win = games_df[k].home_win
            /\ \A alt \in AltBatches(k) :
                  WithoutLabel(engineer_features(enginePre, alt).features_list[k])
                      = WithoutLabel(features_list[k])

\* the first game is a home win the second game's vector shows, and the first
\* game's vector carries only the label of it
C2_Witness ==
    /\ feCall = "engineer_features"
    /\ Len(games_df) = 2
    /\ games_df[1].home_team = games_df[2].home_team
    /\ features_list[1].home_win = Some(1)
    /\ features_list[1].home_streak = 0
    /\ features_list[2].home_streak = 1
    /\ features_list[2].home_elo > initial_rating

\* a completed record: both scores present and positive
Completed(game) ==
    /\ ~IsNone(game.home_score) /\ ~IsNone(game.away_score)
    /\ Val(game.home_score) > 0 /\ Val(game.away_score) > 0

Plays(game, team) == game.home_team = team \/ game.away_team = team

\* rating of a team, the initial rating for a team not yet in the map
RatingOf(elo, team) == IF team \in DOMAIN elo THEN elo[team] ELSE initial_rating

\* C5: engineer_features updates ratings and history only for completed
\* records: a team's history grows by one record per completed game it played,
\* and a team with no completed game in the batch keeps its rating.
C5_OnlyCompletedUpdate ==
    feCall = "engineer_features" =>
        \A t \in Teams :
            LET played == { k \in 1..Len(games_df) :
                              Completed(games_df[k]) /\ Plays(games_df[k], t) }
            IN  /\ Len(engineer.team_game_history[t])
                      = Len(enginePre.team_game_history[t]) + Cardinality(played)
                /\ played = {} =>
                      RatingOf(engineer.elo, t) = RatingOf(enginePre.elo, t)

\* C9 (as stated): _extract_game_features leaves the engineer as it found it,
\* the set of rated teams included, for seen and unseen teams alike.
C9_ExtractSideEffectFree ==
    feCall = "extract" => engineer = enginePre

\* C9 (amended): _extract_game_features changes no existing rating, no game
\* history and no previous lineup; the only change is that a team of the
\* fixture not yet rated is entered at the initial rating.
C9_ExtractOnlyInsertsUnseen ==
    feCall = "extract" =>
        /\ engineer.team_game_history = enginePre.team_game_history
        /\ engineer.prev_lineup = enginePre.prev_lineup
        /\ \A t \in DOMAIN enginePre.elo :
              t \in DOMAIN engineer.elo /\ engineer.elo[t] = enginePre.elo[t]
        /\ DOMAIN engineer.elo =
              DOMAIN enginePre.elo \cup {games_df[1].home_team, games_df[1].away_team}
        /\ \A t \in DOMAIN engineer.elo \ DOMAIN enginePre.elo :
              engineer.elo[t] = initial_rating

\* an engineer with history scores a fixture of a rated team against an unseen one
C9_Witness ==
    /\ feCall = "extract"
    /\ enginePre.team_game_history["A"] # <<>>
    /\ enginePre.elo["A"] # initial_rating
    /\ games_df[1].home_team = "A"
    /\ games_df[1].away_team = "C"
    /\ "C" \notin DOMAIN enginePre.elo
    /\ "C" \in DOMAIN engineer.elo
    /\ features_list[1].home_elo = enginePre.elo["A"]

\* ------------------------------------------------------------ staking claims
\* C11: for fixed decimal odds d > 1, kelly_fraction(p, d) is non-decreasing in
\* p over (0,1): no larger p gives a smaller fraction; and the fraction is 0
\* for every p <= 1/d.
C11_KellyMonotone ==
    fnCall.fn = "kelly_fraction" =>
        LET p == fnCall.args[1]
            d == fnCall.args[2]
        IN  (d > BP /\ 0 < p /\ p < BP) =>
                /\ \A p2 \in KellyProbs :
                      (p <= p2 /\ p2 < BP) => fnOut.value <= kelly_fraction(p2, d)
                /\ p * d <= BP * BP => fnOut.value = 0

\* a halved marginal edge at a plus-money price, below the fraction of a larger p
C11_Witness ==
    /\ fnCall.fn = "kelly_fraction"
    /\ fnCall.args[2] > 2 * BP
    /\ fnOut.value > 0
    /\ fnOut.value < 250
    /\ \E p2 \in KellyProbs :
          /\ p2 > fnCall.args[1]
          /\ kelly_fraction(p2, fnCall.args[2]) >= 500

\* ------------------------------------------------------- odds math claims
\* C12 (as stated): for all valid American odds o,
\* decimal_to_american(american_to_decimal(o)) differs from o by at most 1.
C12_RoundTrip ==
    fnCall.fn = "decimal_to_american(american_to_decimal)" =>
        /\ ~fnOut.raised
        /\ Abs(fnOut.value - fnCall.args[1]) <= 1

\* C12 (amended): for all valid American odds o other than -100 the round trip
\* differs from o by at most 1; for o = -100 it returns +100, the other
\* spelling of the same even-money price.
C12_RoundTripButMinus100 ==
    fnCall.fn = "decimal_to_american(american_to_decimal)" =>
        /\ ~fnOut.raised
        /\ fnCall.args[1] # -100 => Abs(fnOut.value - fnCall.args[1]) <= 1
        /\ fnCall.args[1] = -100 => fnOut.value = 100

\* a favourite whose price is not a round decimal comes back as it went in
C12_Witness ==
    /\ fnCall.fn = "decimal_to_american(american_to_decimal)"
    /\ fnCall.args[1] = -110
    /\ fnOut = Returned(-110)

\* C13: for positive p_a and p_b, remove_vig_two_way returns
\* (p_a/(p_a+p_b), p_b/(p_a+p_b)), whose components sum to 1; when
\* p_a + p_b = 0 it raises an error instead of returning a value.
C13_VigRemoval ==
    fnCall.fn = "remove_vig_two_way" =>
        LET prob_a == fnCall.args[1]
            prob_b == fnCall.args[2]
            total == QAdd(prob_a, prob_b)
        IN  /\ (prob_a[1] > 0 /\ prob_b[1] > 0) =>
                  /\ ~fnOut.raised
                  /\ QEq(QMul(fnOut.value[1], total), prob_a)
                  /\ QEq(QMul(fnOut.value[2], total), prob_b)
                  /\ QEq(QAdd(fnOut.value[1], fnOut.value[2]), QInt(1))
            /\ total[1] = 0 => fnOut.raised

\* a two-way market with an overround: 0.55 and 0.60 become 11/23 and 12/23
C13_Witness ==
    /\ fnCall.fn = "remove_vig_two_way"
    /\ fnCall.args = << <<11, 20>>, <<12, 20>> >>
    /\ ~fnOut.raised
    /\ QEq(fnOut.value[1], <<11, 23>>)
    /\ QEq(fnOut.value[2], <<12, 23>>)

\* the probability arguments of a call
ProbArgs(call) ==
    IF call.fn \in {"implied_prob_to_american", "implied_prob_to_decimal", "expected_value"}
    THEN {call.args[1]}
    ELSE IF call.fn \in {"remove_vig_two_way", "edge"}
    THEN {call.args[1], call.args[2]}
    ELSE {}

\* a probability inside the open interval (0,1)
InUnitInterval(prob) == prob[1] > 0 /\ prob[1] < prob[2]

\* C14: every odds.math function that takes a probability
\* (implied_prob_to_american, implied_prob_to_decimal, remove_vig_two_way,
\* expected_value, edge) raises a domain error when a probability argument is
\* outside the open interval (0,1), rather than returning a value.
C14_DomainErrors ==
    (\E prob \in ProbArgs(fnCall) : ~InUnitInterval(prob)) => fnOut.raised

\* an update_ratings call that returned, on scores with a winner
Decisive ==
    /\ UpdateReturned
    /\ Val(eloCall.home_score) # Val(eloCall.away_score)

HomeWon == Val(eloCall.home_score) > Val(eloCall.away_score)
Winner == IF HomeWon THEN eloCall.home ELSE eloCall.away
Loser == IF HomeWon THEN eloCall.away ELSE eloCall.home

\* the winner's expected score before the call, home advantage included
WinnerExpected ==
    LET expected_home ==
            expected_score(OldRating(eloCall.pre, eloCall.home) + home_advantage,
                           OldRating(eloCall.pre, eloCall.away))
    IN  IF HomeWon THEN expected_home ELSE PM - expected_home

CheckpointMismatch ==
    /\ ~IsNone(ratings_file)
    /\ \/ Val(ratings_file).k_factor # eloConfig.k_factor
       \/ Val(ratings_file).home_advantage # eloConfig.home_advantage
       \/ Val(ratings_file).initial_rating # eloConfig.initial_rating

\* C15: when EloRating loads a checkpoint whose saved hyperparameters differ
\* from the loading instance's, the mismatch is surfaced as a configuration
\* error and the checkpoint's ratings are not adopted.
C15_MismatchSurfaced ==
    (eloCall.op = "load_ratings" /\ CheckpointMismatch) =>
        /\ eloCall.raised
        /\ (Val(ratings_file).ratings # <<>> => ratings # Val(ratings_file).ratings)

\* ------------------------------------------------------- team history claims
IsPrefix(a, b) == Len(a) <= Len(b) /\ SubSeq(b, 1, Len(a)) = a

\* C17: a team's game history is append-only: after any feature extraction or
\* state update the earlier history is a prefix of the later one, and a state
\* update appends exactly one record to the home team's history, one to the
\* away team's and none to any other team's.
C17_HistoryAppendOnly ==
    [][ /\ \A t \in Teams :
              IsPrefix(engineer.team_game_history[t], engineer'.team_game_history[t])
        /\ feCall' = "update_state" =>
              \A t \in Teams :
                  Len(engineer'.team_game_history[t])
                      = Len(engineer.team_game_history[t])
                          + (IF t \in {games_df'[1].home_team, games_df'[1].away_team}
                             THEN 1 ELSE 0)
      ]_vars

\* a state update has appended a second record to both teams of the game
C17_Witness ==
    /\ feCall = "update_state"
    /\ Len(enginePre.team_game_history[games_df[1].home_team]) = 1
    /\ Len(engineer.team_game_history[games_df[1].home_team]) = 2
    /\ Len(engineer.team_game_history[games_df[1].away_team]) = 2
    /\ engineer.team_game_history["C"] = <<>>

\* clamp(x, 0, 7)
ClampRest(x) == IF x < 0 THEN 0 ELSE IF x > 7 THEN 7 ELSE x

\* rest days as the claim states them, from the history the call found
RestDaysOf(team, date) ==
    LET history == enginePre.team_game_history[team]
    IN  IF history = <<>> THEN 3
        ELSE ClampRest((date - history[Len(history)].date) - 1)

\* C20: for a team with history, rest days for a game on date d are
\* clamp((d - date of the team's previous game) - 1, 0, 7); for a team with no
\* history they are 3; the back-to-back indicator is 1 iff rest days = 0; the
\* rest-days feature always lies in [0,7].
C20_RestDays ==
    feCall = "extract" =>
        LET f == features_list[1]
            game == games_df[1]
        IN  /\ f.home_rest_days = RestDaysOf(game.home_team, game.date)
            /\ f.away_rest_days = RestDaysOf(game.away_team, game.date)
            /\ f.home_b2b = 1 <=> f.home_rest_days = 0
            /\ f.away_b2b = 1 <=> f.away_rest_days = 0
            /\ f.home_b2b \in {0, 1} /\ f.away_b2b \in {0, 1}
            /\ f.home_rest_days \in 0..7 /\ f.away_rest_days \in 0..7

\* a fixture eleven days after the home team's last game and the day after the
\* away team's: rest days capped at 7 for one, a back-to-back for the other
C20_Witness ==
    /\ feCall = "extract"
    /\ games_df[1].date = 12
    /\ features_list[1].home_rest_days = 7
    /\ features_list[1].home_b2b = 0
    /\ features_list[1].away_rest_days = 0
    /\ features_list[1].away_b2b = 1

\* ------------------------------------------------------------- cache claims
\* the entry of the latest set for `key` is past its TTL at `now`
Expired(entry, now) == now - entry.at > entry.ttl

\* C18: Cache.get never returns an expired entry: it returns the value of the
\* latest set for the key while the entry's age is at most its TTL, and
\* returns None, leaving no row for the key, once the age exceeds the TTL;
\* cleanup_expired removes exactly the rows get would treat as expired.
C18_CacheTtl ==
    /\ cacheCall.op = "get" =>
          LET set == lastSet[cacheCall.key]
          IN  IF IsNone(set) THEN IsNone(cacheCall.ret)
              ELSE IF Expired(Val(set), cacheCall.now)
                   THEN IsNone(cacheCall.ret) /\ cacheCall.key \notin DOMAIN cache
                   ELSE cacheCall.ret = Some(Val(set).value)
    /\ cacheCall.op = "cleanup_expired" =>
          LET removed == (DOMAIN cacheCall.pre) \ (DOMAIN cache)
          IN  /\ removed = { k \in DOMAIN cacheCall.pre :
                               IsNone(cache_get(cacheCall.pre, k, cacheCall.now).ret) }
              /\ cacheCall.deleted = Cardinality(removed)
              /\ \A k \in DOMAIN cache : cache[k] = cacheCall.pre[k]

\* a get two seconds after a set with ttl 2 returned the value
C18_Witness ==
    /\ cacheCall.op = "get"
    /\ ~IsNone(lastSet[cacheCall.key])
    /\ Val(lastSet[cacheCall.key]).ttl = 2
    /\ cacheCall.now - Val(lastSet[cacheCall.key]).at = 2
    /\ cacheCall.ret = Some(Val(lastSet[cacheCall.key]).value)

\* ------------------------------------------------------- rate limiter claims
\* the grants from the i-th to the j-th fit the rate: their number is at most
\* max_tokens + t * requests_per_minute / 60 for the t seconds between them
WithinRate(i, j) ==
    Token * (j - i + 1)
        <= limiter.max_tokens
             + (limiterLog.grants[j] - limiterLog.grants[i]) * limiter.requests_per_minute

\* grants since the limiter was built or last reset
GrantsSinceReset == Len(limiterLog.grants) - limiterLog.epoch

\* every acquire since the limiter was built or reset was non-blocking and made
\* with no time elapsed
NoTimeElapsed ==
    /\ limiterCall.op = "acquire"
    /\ limiterCall.now = limiterLog.epoch_at
    /\ limiterLog.blocking = 0

\* C19 (as stated): over any interval of t seconds the acquire calls that
\* return True number at most max_tokens + t * requests_per_minute / 60; from
\* a full bucket with no time elapsing, non-blocking acquires succeed
\* floor(max_tokens)
\* times and then fail.
C19_RateBound ==
    /\ \A i, j \in 1..Len(limiterLog.grants) : i <= j => WithinRate(i, j)
    /\ NoTimeElapsed =>
          GrantsSinceReset = Min(limiterLog.attempts, limiter.max_tokens \div Token)

\* C19 (amended): the bound holds over any interval in which reset() is not
\* called; and from a newly built or reset limiter with no time elapsing,
\* non-blocking acquires succeed min(floor(max_tokens), requests_per_minute)
\* times and then fail.
C19_RateBoundBetweenResets ==
    /\ \A i, j \in (limiterLog.epoch + 1)..Len(limiterLog.grants) :
          i <= j => WithinRate(i, j)
    /\ NoTimeElapsed =>
          GrantsSinceReset = Min(limiterLog.attempts,
                                 Min(limiter.max_tokens \div Token,
                                     limiter.requests_per_minute))

\* a limiter of 120 requests per minute granted two acquires at once, refused
\* the third, and granted again a second later
C19_Witness ==
    /\ limiter.requests_per_minute = 120
    /\ limiterLog.epoch = 0
    /\ limiterLog.calls = 4
    /\ Len(limiterLog.grants) = 3
    /\ limiterLog.grants[2] = limiterLog.grants[1]
    /\ limiterLog.grants[3] = limiterLog.grants[1] + 1
    /\ limiterCall.ret

\* ------------------------------------------------------------ streak claims
\* the most recent k records of `history` all have result `win`, and the record
\* before them has the other result or does not exist
RunOf(history, k, win) ==
    /\ k \in 1..Len(history)
    /\ \A i \in (Len(history) - k + 1)..Len(history) : history[i].win = win
    /\ k < Len(history) => history[Len(history) - k].win # win

\* the streak as the claim states it
StreakIs(history, streak) ==
    /\ \A k \in 1..Len(history) :
          /\ RunOf(history, k, TRUE) => streak = k
          /\ RunOf(history, k, FALSE) => streak = -k
    /\ streak = 0 <=> history = <<>>
    /\ history # <<>> =>
          /\ streak > 0 <=> history[Len(history)].win
          /\ Abs(streak) \in 1..Len(history)

\* C21: the streak feature of a team is +k when its k most recent history
\* records are wins and the one before is a loss or absent, -k symmetrically
\* for losses, and 0 iff the team has no history; its sign matches the most
\* recent result and its magnitude is between 1 and the history length.
C21_Streak ==
    feCall = "extract" =>
        LET f == features_list[1]
            game == games_df[1]
        IN  /\ StreakIs(enginePre.team_game_history[game.home_team], f.home_streak)
            /\ StreakIs(enginePre.team_game_history[game.away_team], f.away_streak)

\* a fixture between a team that won, then lost, and one that lost, then won
C21_Witness ==
    /\ feCall = "extract"
    /\ Len(enginePre.team_game_history[games_df[1].home_team]) = 2
    /\ Len(enginePre.team_game_history[games_df[1].away_team]) = 2
    /\ enginePre.team_game_history[games_df[1].home_team][1].win
    /\ features_list[1].home_streak = -1
    /\ features_list[1].away_streak = 1

\* -------------------------------------------------------- side-table claims
\* the row the claim says a lookup uses: the entry for (season, team), else the
\* team's entry for the most recent season present in the table, else the default
SeasonValue(table, season, team, default) ==
    IF <<season, team>> \in DOMAIN table THEN table[<<season, team>>]
    ELSE IF DOMAIN table # {} /\ <<max_season(table), team>> \in DOMAIN table
         THEN table[<<max_season(table), team>>]
         ELSE default

\* C22: for the advanced-metrics and the season-averages lookups of
\* _extract_game_features, when the table has no entry for (requested season,
\* team) the value used is the team's entry for the most recent season present
\* in that table; the 0.0 default is used only when that entry is absent too.
C22_SeasonFallback ==
    feCall = "extract" =>
        LET f == features_list[1]
            game == games_df[1]
            season == season_from_date(game.date)
            home_adv == SeasonValue(enginePre.advanced_lookup, season,
                                    game.home_team, default_adv)
            away_adv == SeasonValue(enginePre.advanced_lookup, season,
                                    game.away_team, default_adv)
            home_avgs == SeasonValue(enginePre.team_avgs_lookup, season,
                                     game.home_team, default_avgs)
            away_avgs == SeasonValue(enginePre.team_avgs_lookup, season,
                                     game.away_team, default_avgs)
        IN  /\ f.home_weighted_PER = home_adv.PER
            /\ f.home_weighted_BPM = home_adv.BPM
            /\ f.home_weighted_WS48 = home_adv.WS48
            /\ f.away_weighted_PER = away_adv.PER
            /\ f.away_weighted_BPM = away_adv.BPM
            /\ f.away_weighted_WS48 = away_adv.WS48
            /\ f.home_net_rating = home_avgs.net_rating
            /\ f.home_pace = home_avgs.pace
            /\ f.home_off_3pa_rate = home_avgs.off_3pa_rate
            /\ f.home_def_opp_3pa_rate = home_avgs.def_opp_3pa_rate
            /\ f.away_net_rating = away_avgs.net_rating
            /\ f.away_pace = away_avgs.pace
            /\ f.away_off_3pa_rate = away_avgs.off_3pa_rate
            /\ f.away_def_opp_3pa_rate = away_avgs.def_opp_3pa_rate

\* ------------------------------------------------------------ lineup claims
RECURSIVE LastKnownLineup(_, _, _)
\* the starters of the latest of the first i records of `history` whose game
\* has a known lineup; none known is the empty set
LastKnownLineup(history, i, team) ==
    IF i = 0 THEN {}
    ELSE IF lineup_lookup(history[i].date, team) # {}
         THEN lineup_lookup(history[i].date, team)
         ELSE LastKnownLineup(history, i - 1, team)

\* the starters of the team's immediately preceding processed game
PrecedingLineup(history, team) ==
    IF history = <<>> THEN {} ELSE lineup_lookup(history[Len(history)].date, team)

\* C23 (as stated): the lineup-continuity overlap of a team for game g is the
\* size of the intersection of g's starting five with the starting five of the
\* team's immediately preceding processed game, and 0 whenever that game has
\* no known lineup or the team has no preceding game.
C23_LineupContinuity ==
    feCall = "extract" =>
        LET f == features_list[1]
            game == games_df[1]
            home == game.home_team
            away == game.away_team
        IN  /\ f.home_lineup_cont_overlap =
                 Cardinality(lineup_lookup(game.date, home)
                     \cap PrecedingLineup(enginePre.team_game_history[home], home))
            /\ f.away_lineup_cont_overlap =
                 Cardinality(lineup_lookup(game.date, away)
                     \cap PrecedingLineup(enginePre.team_game_history[away], away))

\* C23 (amended): the overlap is the size of the intersection of g's starting
\* five with the starting five of the team's most recent processed game whose
\* lineup is known, and 0 when the team has no such game.
C23_LineupContinuityLastKnown ==
    feCall = "extract" =>
        LET f == features_list[1]
            game == games_df[1]
            home == game.home_team
            away == game.away_team
            home_hist == enginePre.team_game_history[home]
            away_hist == enginePre.team_game_history[away]
        IN  /\ f.home_lineup_cont_overlap =
                 Cardinality(lineup_lookup(game.date, home)
                     \cap LastKnownLineup(home_hist, Len(home_hist), home))
            /\ f.away_lineup_cont_overlap =
                 Cardinality(lineup_lookup(game.date, away)
                     \cap LastKnownLineup(away_hist, Len(away_hist), away))

\* the home team played with known starters, then a game with none recorded,
\* and three of the known starters start the fixture
C23_Witness ==
    /\ feCall = "extract"
    /\ LET hist == enginePre.team_game_history[games_df[1].home_team]
       IN  /\ Len(hist) = 2
           /\ lineup_lookup(hist[1].date, games_df[1].home_team) # {}
           /\ lineup_lookup(hist[2].date, games_df[1].home_team) = {}
    /\ features_list[1].home_lineup_cont_overlap = 3

\* ------------------------------------------------------ rating mass claims
RECURSIVE SumRatings(_, _)
\* the sum of the ratings stored for `teams`
SumRatings(rs, teams) ==
    IF teams = {} THEN 0
    ELSE LET t == CHOOSE x \in teams : TRUE
         IN  rs[t] + SumRatings(rs, teams \ {t})

\* the stored ratings add up to initial_rating times the number of teams stored
MassConserved(rs) ==
    SumRatings(rs, DOMAIN rs) = initial_rating * Cardinality(DOMAIN rs)

\* C24 (as stated): after any sequence of update_ratings and get_rating calls
\* (any teams, any scores) from an empty rating map, the sum of all stored
\* ratings equals initial_rating times the number of teams in the map.
C24_MassConserved == MassConserved(ratings)

\* C24 (amended): every get_rating call, and every update_ratings call whose
\* home team and away team are two different teams, leaves the sum of the
\* stored ratings at initial_rating times the number of teams in the map if it
\* found it so.
C24_MassConservedDistinctTeams ==
    [][ (/\ MassConserved(ratings)
         /\ ~(eloCall'.op = "update_ratings" /\ eloCall'.home = eloCall'.away))
        => MassConserved(ratings') ]_vars

\* two updates between different teams have moved the ratings of three teams
\* and the mass is conserved
C24_Witness ==
    /\ UpdateReturned
    /\ eloCall.home # eloCall.away
    /\ DOMAIN ratings = Teams
    /\ \A t \in Teams : ratings[t] # initial_rating
    /\ MassConserved(ratings)

\* ------------------------------------------------- one selection per game
\* the rows the last recommend_date call inserted for its g-th game
RowsOfGame(g) ==
    { i \in NewRows : recommendations[i].game_id = <<ledgerCall.date, g>> }

\* C25: for every game, recommend_date emits at most one recommendation: the
\* home and the away edge are taken against fair probabilities that sum to 1
\* and model probabilities that sum to 1, so they cannot both exceed 0.01.
C25_OneSelectionPerGame ==
    ledgerCall.op = "recommend_date" =>
        \A g \in 1..Len(ledgerCall.games) :
            /\ Cardinality(RowsOfGame(g)) <= 1
            /\ ~(/\ SideEdge(ledgerCall.games[g], "home") > min_edge
                 /\ SideEdge(ledgerCall.games[g], "away") > min_edge)

\* one call recommended the home side of one game and the away side of another
C25_Witness ==
    /\ ledgerCall.op = "recommend_date"
    /\ \E g, h \in 1..Len(ledgerCall.games) :
          /\ \E i \in RowsOfGame(g) : recommendations[i].selection = "home"
          /\ \E i \in RowsOfGame(h) : recommendations[i].selection = "away"

\* --------------------------------------------------------- settlement claims
\* the rows of results linked to recommendation i
ResultsOf(rs, i) == { k \in 1..Len(rs) : rs[k].recommendation_id = i }

\* C26: settlement is at-most-once: after any sequence of recommend_date and
\* stub_settle_results calls run one after another, every recommendation has
\* at most one row in results, and a second stub_settle_results call for the
\* same date settles zero recommendations.
C26_SettleAtMostOnce ==
    [][ /\ \A i \in 1..Len(recommendations') :
              Cardinality(ResultsOf(results', i)) <= 1
        /\ (/\ ledgerCall.op = "stub_settle_results"
            /\ ledgerCall'.op = "stub_settle_results"
            /\ ledgerCall'.date = ledgerCall.date)
           => (results' = results /\ (ledgerCall' # ledgerCall => ledgerCall'.count = 0))
      ]_vars

\* a second settlement of a date found every recommendation of the date
\* settled and settled none
C26_Witness ==
    /\ ledgerCall.op = "stub_settle_results"
    /\ ledgerCall.count = 0
    /\ \E i \in 1..Len(recommendations) :
          /\ recommendations[i].created_at = ledgerCall.date
          /\ Cardinality(ResultsOf(results, i)) = 1

\* C27: after recommend_date(D) has written its recommendations, a later
\* stub_settle_results(D) for the same date string settles every one of them,
\* whatever the wall-clock date on which recommend_date ran.
C27_SettlesEveryRecommendation ==
    ledgerCall.op = "stub_settle_results" =>
        \A i \in 1..Len(recommendations) :
            recommendations[i].game_id[1] = ledgerCall.date
            => ResultsOf(results, i) # {}

\* C28: every recommendation persisted by recommend_date satisfies
\* edge = model_prob - market_prob for the values stored in that row: the
\* market probability recorded is the fair probability the edge was computed
\* from.
C28_EdgeOfStoredProbabilities ==
    ledgerCall.op = "recommend_date" =>
        \A i \in NewRows :
            recommendations[i].edge
                = recommendations[i].model_prob - recommendations[i].market_prob

\* ------------------------------------------------------------ provider claims
\* C29: in BalldontlieProvider._request the rate limit covers every HTTP
\* attempt: in any execution, including failed attempts and retries, the
\* number of HTTP GET attempts sent never exceeds the number of rate-limiter
\* tokens acquired.
C29_GetsWithinTokens == request.total_gets <= Len(limiterLog.grants)

\* C30: non-blocking polling makes progress: a caller that keeps invoking
\* acquire(blocking=False) at any fixed interval (requests_per_minute >= 1) is
\* granted a token again and again; rejected attempts never prevent a later
\* attempt from succeeding.
C30_PollingProgress ==
    []<>(limiterCall.op = "acquire" /\ limiterCall.ret)


=========================================================================
